---- MODULE Spec2Model ----
(***************************************************************************)
(* Branch predictor simulation engine (src/predictors.py).                 *)
(*                                                                         *)
(* A predictor object is a record holding the fields of the Python object. *)
(* Every method is an operator from the object (and the arguments) to a    *)
(* record [self, ret]: the object after the call and what the call         *)
(* returned, where ret = [exc, val] carries the raised exception ("none"   *)
(* when the call returned normally) and the returned value.                *)
(*                                                                         *)
(* Address tokens are Python strings, modelled as sequences of one-        *)
(* character strings: the callers (test_predictor, evaluate_predictor)     *)
(* pass the address column of the trace, so isinstance(address, str)       *)
(* holds at every call.  Python lists are functions over 0..n-1.           *)
(***************************************************************************)
EXTENDS Integers, Sequences, FiniteSets, TLC

VARIABLES pred, trace, last, harness, workers, heap

vars == <<pred, trace, last, harness, workers, heap>>

(***************************************************************************)
(* Bounds of the model.                                                    *)
(***************************************************************************)
MaxTrace == 4        \* updates issued between two resets
TableSize == 2       \* table_size of Bimodal, GShare, Perceptron; base_table_size of TAGE
HistoryBits == 2     \* history_bits of GShare
HistoryLength == 2   \* history_length of Perceptron
NumTables == 2       \* num_tables of TAGE
MaxShortTrace == 2   \* updates issued between two resets in the short specifications
MaxDataset == 2      \* length of the datasets handed to the harness

\* Address tokens of the traces: "0", "0x1" and "3" parse; "1a" (hexadecimal
\* digits without the prefix) does not.
Tokens == { <<"0">>, <<"0", "x", "1">>, <<"3">>, <<"1", "a">> }

Outcomes == {"taken", "not_taken"}

\* Further tokens that parse, whose value depends on the base: "0x10", "10",
\* "0x1a", "007".
HashTokens ==
    { <<"0", "x", "1", "0">>, <<"1", "0">>, <<"0", "x", "1", "a">>, <<"0", "0", "7">> }

(***************************************************************************)
(* Python integer operators on non-negative integers.                      *)
(***************************************************************************)
RECURSIVE Pow2(_)
Pow2(n) == IF n = 0 THEN 1 ELSE 2 * Pow2(n - 1)

\* a << n
Shl(a, n) == a * Pow2(n)

\* a >> n
Shr(a, n) == a \div Pow2(n)

RECURSIVE BitAnd(_, _)
BitAnd(a, b) ==
    IF a = 0 \/ b = 0 THEN 0
    ELSE (IF a % 2 = 1 /\ b % 2 = 1 THEN 1 ELSE 0) + 2 * BitAnd(a \div 2, b \div 2)

RECURSIVE BitOr(_, _)
BitOr(a, b) ==
    IF a = 0 /\ b = 0 THEN 0
    ELSE (IF a % 2 = 1 \/ b % 2 = 1 THEN 1 ELSE 0) + 2 * BitOr(a \div 2, b \div 2)

RECURSIVE BitXor(_, _)
BitXor(a, b) ==
    IF a = 0 /\ b = 0 THEN 0
    ELSE (IF a % 2 # b % 2 THEN 1 ELSE 0) + 2 * BitXor(a \div 2, b \div 2)

Min(a, b) == IF a <= b THEN a ELSE b

Max(a, b) == IF a >= b THEN a ELSE b

RECURSIVE Gcd(_, _)
Gcd(a, b) == IF b = 0 THEN a ELSE Gcd(b, a % b)

(***************************************************************************)
(* Python int(s) and int(s, 16) on strings over digits and letters.        *)
(***************************************************************************)
DigitChars == <<"0", "1", "2", "3", "4", "5", "6", "7", "8", "9",
                "a", "b", "c", "d", "e", "f">>

\* the digits valid in the base
Digits(base) == { DigitChars[i] : i \in 1..base }

DigitValue(c) == (CHOOSE i \in 1..16 : DigitChars[i] = c) - 1

RECURSIVE ToInt(_, _)
ToInt(s, base) ==
    IF s = <<>> THEN 0
    ELSE ToInt(SubSeq(s, 1, Len(s) - 1), base) * base + DigitValue(s[Len(s)])

\* address.startswith('0x')
StartsWith0x(s) == Len(s) >= 2 /\ s[1] = "0" /\ s[2] = "x"

\* int(s, base): base 16 accepts the 0x prefix; at least one digit is
\* required and every character must be a digit of the base, else ValueError.
PyInt(s, base) ==
    LET body == IF base = 16 /\ StartsWith0x(s) THEN SubSeq(s, 3, Len(s)) ELSE s
    IN  IF body # <<>> /\ \A i \in 1..Len(body) : body[i] \in Digits(base)
        THEN [exc |-> "none", val |-> ToInt(body, base)]
        ELSE [exc |-> "ValueError", val |-> 0]

\* the conversion with the prefix cut off and the digits read in base 10
AddressToIntBase10(address) ==
    IF StartsWith0x(address)
    THEN PyInt(SubSeq(address, 3, Len(address)), 10)
    ELSE PyInt(address, 10)

\* int(address, 16) if address.startswith('0x') else int(address)
AddressToInt(address) ==
    IF StartsWith0x(address) THEN PyInt(address, 16) ELSE PyInt(address, 10)

\* a % n, which raises ZeroDivisionError when n is 0
PyMod(a, n) ==
    IF n = 0 THEN [exc |-> "ZeroDivisionError", val |-> 0]
    ELSE [exc |-> "none", val |-> a % n]

\* a call that returned val
Return(self, val) == [self |-> self, ret |-> [exc |-> "none", val |-> val]]

\* a call that raised exc, leaving the object as it was at the raise
Raise(self, exc) == [self |-> self, ret |-> [exc |-> exc, val |-> "-"]]

(***************************************************************************)
(* BranchPredictor (base class)                                            *)
(***************************************************************************)
\* return value of get_accuracy: the float correct/total as a reduced fraction
Float(num, den) == LET g == Gcd(num, den) IN <<num \div g, den \div g>>

\* get_accuracy without the guard on total_predictions == 0
GetAccuracyUnguarded(self) ==
    IF self.total_predictions = 0
    THEN Raise(self, "ZeroDivisionError")
    ELSE Return(self, Float(self.correct_predictions, self.total_predictions))

GetAccuracy(self) ==
    IF self.total_predictions = 0
    THEN Return(self, <<0, 1>>)
    ELSE Return(self, Float(self.correct_predictions, self.total_predictions))

BaseReset(self) ==
    [self EXCEPT !.correct_predictions = 0, !.total_predictions = 0]

\* the tally of update: total_predictions += 1; correct_predictions += 1 on a hit
Score(self, prediction, actual_outcome) ==
    [self EXCEPT !.total_predictions = @ + 1,
                 !.correct_predictions = IF prediction = actual_outcome THEN @ + 1 ELSE @]

\* a counter update that does not clamp
CounterUpdateUnclamped(c, actual_outcome) ==
    IF actual_outcome = "taken" THEN c + 1 ELSE c - 1

\* a counter update that clamps at 1, the value the table starts with
CounterUpdateOneBit(c, actual_outcome) ==
    IF actual_outcome = "taken" THEN Min(1, c + 1) ELSE Max(0, c - 1)

\* a counter update with the two directions exchanged
CounterUpdateInverted(c, actual_outcome) ==
    IF actual_outcome = "taken" THEN Max(0, c - 1) ELSE Min(3, c + 1)

\* 2-bit counter update: min(3, c + 1) on taken, max(0, c - 1) otherwise
CounterUpdate(c, actual_outcome) ==
    IF actual_outcome = "taken" THEN Min(3, c + 1) ELSE Max(0, c - 1)

\* a prediction that is taken at the saturated value only
CounterPredictStrict(c) == IF c >= 3 THEN "taken" ELSE "not_taken"

\* 'taken' if c >= 2 else 'not_taken'
CounterPredict(c) == IF c >= 2 THEN "taken" ELSE "not_taken"

\* a history shift that is not masked to the width
ShiftHistoryUnmasked(history, actual_outcome, width) ==
    BitOr(Shl(history, 1), IF actual_outcome = "taken" THEN 1 ELSE 0)

\* ((history << 1) | bit) & ((1 << width) - 1)
ShiftHistory(history, actual_outcome, width) ==
    BitAnd(BitOr(Shl(history, 1), IF actual_outcome = "taken" THEN 1 ELSE 0),
           Shl(1, width) - 1)

(***************************************************************************)
(* AlwaysTakenPredictor, NeverTakenPredictor                               *)
(***************************************************************************)
AlwaysTakenPredictor ==
    [name |-> "Always Taken", correct_predictions |-> 0, total_predictions |-> 0]

\* a predict that converts the address as the table predictors do
AlwaysTakenPredictHashing(self, address) ==
    IF AddressToInt(address).exc # "none" THEN Raise(self, AddressToInt(address).exc)
    ELSE Return(self, "taken")

AlwaysTakenPredict(self, address) == Return(self, "taken")

\* an update that counts the call only on a miss
AlwaysTakenUpdateTalliesMisses(self, address, actual_outcome) ==
    Return([self EXCEPT
              !.total_predictions = IF actual_outcome = "taken" THEN @ ELSE @ + 1,
              !.correct_predictions = IF actual_outcome = "taken" THEN @ + 1 ELSE @],
           "None")

AlwaysTakenUpdate(self, address, actual_outcome) ==
    Return(Score(self, "taken", actual_outcome), "None")

NeverTakenPredictor ==
    [name |-> "Never Taken", correct_predictions |-> 0, total_predictions |-> 0]

NeverTakenPredict(self, address) == Return(self, "not_taken")

\* an update copied from AlwaysTakenPredictor with the comparison left as it was
NeverTakenUpdateCopied(self, address, actual_outcome) ==
    Return(Score(self, "taken", actual_outcome), "None")

NeverTakenUpdate(self, address, actual_outcome) ==
    Return(Score(self, "not_taken", actual_outcome), "None")

(***************************************************************************)
(* BimodalPredictor                                                        *)
(***************************************************************************)
BimodalPredictor(table_size) ==
    [name |-> "Bimodal", correct_predictions |-> 0, total_predictions |-> 0,
     table_size |-> table_size,
     table |-> [i \in 0..(table_size - 1) |-> 1]]

BimodalGetIndex(self, address) ==
    LET a == AddressToInt(address)
    IN  IF a.exc # "none" THEN a ELSE PyMod(a.val, self.table_size)

BimodalPredict(self, address) ==
    LET index == BimodalGetIndex(self, address)
    IN  IF index.exc # "none" THEN Raise(self, index.exc)
        ELSE Return(self, CounterPredict(self.table[index.val]))

\* an update that steps every counter of the table
BimodalUpdateWholeTable(self, address, actual_outcome) ==
    LET index == BimodalGetIndex(self, address)
    IN  IF index.exc # "none" THEN Raise(self, index.exc)
        ELSE LET prediction == IF self.table[index.val] >= 2 THEN "taken" ELSE "not_taken"
                 scored == Score(self, prediction, actual_outcome)
             IN  Return([scored EXCEPT
                           !.table = [n \in DOMAIN @ |-> CounterUpdate(@[n], actual_outcome)]],
                        "None")

\* an update that scores the prediction of the counter after its update
BimodalUpdateScoresAfter(self, address, actual_outcome) ==
    LET index == BimodalGetIndex(self, address)
    IN  IF index.exc # "none" THEN Raise(self, index.exc)
        ELSE LET updated == [self EXCEPT !.table[index.val] = CounterUpdate(@, actual_outcome)]
                 prediction == IF updated.table[index.val] >= 2 THEN "taken" ELSE "not_taken"
             IN  Return(Score(updated, prediction, actual_outcome), "None")

\* an update that counts the prediction before it hashes the address
BimodalUpdateCountsFirst(self, address, actual_outcome) ==
    LET counted == [self EXCEPT !.total_predictions = @ + 1]
        index == BimodalGetIndex(self, address)
    IN  IF index.exc # "none" THEN Raise(counted, index.exc)
        ELSE LET prediction == IF self.table[index.val] >= 2 THEN "taken" ELSE "not_taken"
                 correct == IF prediction = actual_outcome THEN 1 ELSE 0
             IN  Return([counted EXCEPT
                           !.correct_predictions = @ + correct,
                           !.table[index.val] = CounterUpdate(@, actual_outcome)],
                        "None")

BimodalUpdate(self, address, actual_outcome) ==
    LET index == BimodalGetIndex(self, address)
    IN  IF index.exc # "none" THEN Raise(self, index.exc)
        ELSE LET prediction == IF self.table[index.val] >= 2 THEN "taken" ELSE "not_taken"
                 scored == Score(self, prediction, actual_outcome)
             IN  Return([scored EXCEPT !.table[index.val] = CounterUpdate(@, actual_outcome)],
                        "None")

\* a reset that leaves the table as it is
BimodalResetKeepsTable(self) == BaseReset(self)

\* a reset that fills the table with 2, the lowest value predicting taken
BimodalResetWeaklyTaken(self) ==
    [BaseReset(self) EXCEPT !.table = [i \in 0..(self.table_size - 1) |-> 2]]

BimodalReset(self) ==
    [BaseReset(self) EXCEPT !.table = [i \in 0..(self.table_size - 1) |-> 1]]

(***************************************************************************)
(* GSharePredictor                                                         *)
(***************************************************************************)
GSharePredictor(history_bits, table_size) ==
    [name |-> "GShare", correct_predictions |-> 0, total_predictions |-> 0,
     history_bits |-> history_bits,
     table_size |-> table_size,
     history |-> 0,
     table |-> [i \in 0..(table_size - 1) |-> 1]]

\* an index computed from the address alone
GShareGetIndexAddressOnly(self, address) ==
    LET a == AddressToInt(address)
    IN  IF a.exc # "none" THEN a
        ELSE PyMod(a.val, self.table_size)

GShareGetIndex(self, address) ==
    LET a == AddressToInt(address)
    IN  IF a.exc # "none" THEN a
        ELSE PyMod(BitXor(a.val, self.history), self.table_size)

\* a predict that shifts its own prediction into the history
GSharePredictSpeculative(self, address) ==
    LET index == GShareGetIndex(self, address)
    IN  IF index.exc # "none" THEN Raise(self, index.exc)
        ELSE LET prediction == CounterPredict(self.table[index.val])
             IN  Return([self EXCEPT !.history =
                                         ShiftHistory(@, prediction, self.history_bits)],
                        prediction)

GSharePredict(self, address) ==
    LET index == GShareGetIndex(self, address)
    IN  IF index.exc # "none" THEN Raise(self, index.exc)
        ELSE Return(self, CounterPredict(self.table[index.val]))

\* an update that shifts the history first and indexes with the new value
GShareUpdateShiftsFirst(self, address, actual_outcome) ==
    LET shifted == [self EXCEPT !.history =
                                   ShiftHistory(@, actual_outcome, self.history_bits)]
        index == GShareGetIndex(shifted, address)
    IN  IF index.exc # "none" THEN Raise(self, index.exc)
        ELSE LET prediction == IF self.table[index.val] >= 2 THEN "taken" ELSE "not_taken"
                 scored == Score(shifted, prediction, actual_outcome)
             IN  Return([scored EXCEPT
                           !.table[index.val] = CounterUpdate(@, actual_outcome)],
                        "None")

GShareUpdate(self, address, actual_outcome) ==
    LET index == GShareGetIndex(self, address)
    IN  IF index.exc # "none" THEN Raise(self, index.exc)
        ELSE LET prediction == IF self.table[index.val] >= 2 THEN "taken" ELSE "not_taken"
                 scored == Score(self, prediction, actual_outcome)
             IN  Return([scored EXCEPT
                           !.table[index.val] = CounterUpdate(@, actual_outcome),
                           !.history = ShiftHistory(@, actual_outcome, self.history_bits)],
                        "None")

GShareReset(self) ==
    [BaseReset(self) EXCEPT !.history = 0,
                            !.table = [i \in 0..(self.table_size - 1) |-> 1]]

(***************************************************************************)
(* PerceptronPredictor                                                     *)
(***************************************************************************)
\* threshold=1.5, as the fraction 3/2
PerceptronThreshold == <<3, 2>>

PerceptronPredictor(history_length, table_size, threshold) ==
    [name |-> "Perceptron", correct_predictions |-> 0, total_predictions |-> 0,
     history_length |-> history_length,
     table_size |-> table_size,
     threshold |-> threshold,
     history |-> 0,
     weights |-> [n \in 0..(table_size - 1) |-> [k \in 0..history_length |-> 0]]]

PerceptronGetIndex(self, address) ==
    LET a == AddressToInt(address)
    IN  IF a.exc # "none" THEN a ELSE PyMod(a.val, self.table_size)

\* (self.history >> i) & 1, as the factor 1 if bit else -1
Bipolar(history, i) == IF BitAnd(Shr(history, i), 1) # 0 THEN 1 ELSE -1

\* the loop of _compute_output, from iteration i on
RECURSIVE PerceptronWeightedSum(_, _, _)
PerceptronWeightedSum(self, index, i) ==
    IF i >= self.history_length THEN 0
    ELSE self.weights[index][i + 1] * Bipolar(self.history, i)
         + PerceptronWeightedSum(self, index, i + 1)

PerceptronComputeOutput(self, index) ==
    self.weights[index][0] + PerceptronWeightedSum(self, index, 0)

\* a predict that takes an output of 0 for not_taken
PerceptronPredictStrict(self, address) ==
    LET index == PerceptronGetIndex(self, address)
    IN  IF index.exc # "none" THEN Raise(self, index.exc)
        ELSE Return(self, IF PerceptronComputeOutput(self, index.val) > 0
                          THEN "taken" ELSE "not_taken")

PerceptronPredict(self, address) ==
    LET index == PerceptronGetIndex(self, address)
    IN  IF index.exc # "none" THEN Raise(self, index.exc)
        ELSE Return(self, IF PerceptronComputeOutput(self, index.val) >= 0
                          THEN "taken" ELSE "not_taken")

\* a training condition that holds on a misprediction only
PerceptronTrainsOnMiss(self, actual, output) ==
    (actual = 1 /\ output < 0) \/ (actual = -1 /\ output >= 0)

\* actual * output <= self.threshold
PerceptronTrains(self, actual, output) ==
    actual * output * self.threshold[2] <= self.threshold[1]

\* an update that shifts the outcome into the history only when it trains
PerceptronUpdateShiftsOnTraining(self, address, actual_outcome) ==
    LET index == PerceptronGetIndex(self, address)
    IN  IF index.exc # "none" THEN Raise(self, index.exc)
        ELSE LET output == PerceptronComputeOutput(self, index.val)
                 prediction == IF output >= 0 THEN "taken" ELSE "not_taken"
                 scored == Score(self, prediction, actual_outcome)
                 actual == IF actual_outcome = "taken" THEN 1 ELSE -1
                 trained == [k \in 0..self.history_length |->
                               IF k = 0 THEN self.weights[index.val][0] + actual
                               ELSE self.weights[index.val][k]
                                    + actual * Bipolar(self.history, k - 1)]
             IN  IF PerceptronTrains(self, actual, output)
                 THEN Return([scored EXCEPT
                                !.weights[index.val] = trained,
                                !.history = ShiftHistory(@, actual_outcome, self.history_length)],
                             "None")
                 ELSE Return(scored, "None")

PerceptronUpdate(self, address, actual_outcome) ==
    LET index == PerceptronGetIndex(self, address)
    IN  IF index.exc # "none" THEN Raise(self, index.exc)
        ELSE LET output == PerceptronComputeOutput(self, index.val)
                 prediction == IF output >= 0 THEN "taken" ELSE "not_taken"
                 scored == Score(self, prediction, actual_outcome)
                 actual == IF actual_outcome = "taken" THEN 1 ELSE -1
                 trained == [k \in 0..self.history_length |->
                               IF k = 0 THEN self.weights[index.val][0] + actual
                               ELSE self.weights[index.val][k]
                                    + actual * Bipolar(self.history, k - 1)]
             IN  Return([scored EXCEPT
                           !.weights[index.val] =
                               IF PerceptronTrains(self, actual, output) THEN trained ELSE @,
                           !.history = ShiftHistory(@, actual_outcome, self.history_length)],
                        "None")

PerceptronReset(self) ==
    [BaseReset(self) EXCEPT
       !.history = 0,
       !.weights = [n \in 0..(self.table_size - 1) |-> [k \in 0..self.history_length |-> 0]]]

(***************************************************************************)
(* TAGEPredictor                                                           *)
(***************************************************************************)
\* a tagged entry, the list [counter, tag, useful]
Entry(counter, tag, useful) == (0 :> counter) @@ (1 :> tag) @@ (2 :> useful)

\* size of the tag space
TagSpace == 256

TAGEPredictor(num_tables, base_table_size) ==
    LET history_lengths == [i \in 0..(num_tables - 1) |-> Pow2(i + 1)]
    IN  [name |-> "TAGE", correct_predictions |-> 0, total_predictions |-> 0,
         num_tables |-> num_tables,
         base_table_size |-> base_table_size,
         base_table |-> [n \in 0..(base_table_size - 1) |-> 1],
         tagged_tables |-> [i \in 0..(num_tables - 1) |->
                              [n \in 0..(base_table_size - 1) |-> Entry(1, 0, 0)]],
         history_lengths |-> history_lengths,
         global_history |-> 0,
         max_history |-> IF num_tables > 0 THEN history_lengths[num_tables - 1] ELSE 0]

\* _get_base_index, _get_tag and _get_index on a token that parses
TageGetBaseIndex(self, address) == AddressToInt(address).val % self.base_table_size

\* a tag computed from the whole global history
TageGetTagFullHistory(self, address, history_len) ==
    BitXor(AddressToInt(address).val, self.global_history) % TagSpace

TageGetTag(self, address, history_len) ==
    LET history_mask == Shl(1, history_len) - 1
        hist == BitAnd(self.global_history, history_mask)
    IN  BitXor(AddressToInt(address).val, hist) % TagSpace

TageGetIndex(self, address, table_id) ==
    LET history_len == self.history_lengths[table_id]
        history_mask == Shl(1, history_len) - 1
        hist == BitAnd(self.global_history, history_mask)
    IN  BitXor(AddressToInt(address).val, hist) % self.base_table_size

\* the scan for i in range(num_tables - 1, -1, -1) from table i down: the
\* first table whose indexed entry holds the computed tag, or -1
RECURSIVE TageFindProvider(_, _, _)
TageFindProvider(self, address, i) ==
    IF i < 0 THEN -1
    ELSE IF self.tagged_tables[i][TageGetIndex(self, address, i)][1]
            = TageGetTag(self, address, self.history_lengths[i])
         THEN i
         ELSE TageFindProvider(self, address, i - 1)

\* the exception of the first _get_index or _get_base_index call, "none" when
\* it returns: the token does not parse, or the modulus base_table_size is 0
TageHashError(self, address) ==
    IF AddressToInt(address).exc # "none" THEN AddressToInt(address).exc
    ELSE PyMod(AddressToInt(address).val, self.base_table_size).exc

\* a predict that reads the base table whatever the tagged tables hold
TagePredictBaseOnly(self, address) ==
    IF TageHashError(self, address) # "none" THEN Raise(self, TageHashError(self, address))
    ELSE Return(self, CounterPredict(self.base_table[TageGetBaseIndex(self, address)]))

\* the first _get_index or _get_base_index call raises before anything is
\* read or written
TagePredict(self, address) ==
    IF TageHashError(self, address) # "none" THEN Raise(self, TageHashError(self, address))
    ELSE LET i == TageFindProvider(self, address, self.num_tables - 1)
         IN  IF i >= 0
             THEN Return(self, CounterPredict(
                            self.tagged_tables[i][TageGetIndex(self, address, i)][0]))
             ELSE Return(self, CounterPredict(
                            self.base_table[TageGetBaseIndex(self, address)]))

\* a scan from the table above the provider up: the lowest free table, or -1
TageFindAllocShortest(self, address, i, provider_table) ==
    LET free == { j \in (provider_table + 1)..i :
                    self.tagged_tables[j][TageGetIndex(self, address, j)][2] = 0 }
    IN  IF free = {} THEN -1 ELSE CHOOSE j \in free : \A k \in free : j <= k

\* the scan for i in range(num_tables - 1, provider_table, -1) from table i
\* down: the first table whose indexed entry has useful == 0, or -1
RECURSIVE TageFindAlloc(_, _, _, _)
TageFindAlloc(self, address, i, provider_table) ==
    IF i <= provider_table THEN -1
    ELSE IF self.tagged_tables[i][TageGetIndex(self, address, i)][2] = 0
         THEN i
         ELSE TageFindAlloc(self, address, i - 1, provider_table)

\* an update that steps the base counter also when a tagged table provides
TageUpdateTrainsBase(self, address, actual_outcome) ==
    IF TageHashError(self, address) # "none" THEN Raise(self, TageHashError(self, address))
    ELSE LET provider_table == TageFindProvider(self, address, self.num_tables - 1)
             provider_index == IF provider_table >= 0
                               THEN TageGetIndex(self, address, provider_table) ELSE -1
             base_index == TageGetBaseIndex(self, address)
             prediction ==
                 IF provider_table >= 0
                 THEN (IF self.tagged_tables[provider_table][provider_index][0] >= 2
                       THEN "taken" ELSE "not_taken")
                 ELSE (IF self.base_table[base_index] >= 2 THEN "taken" ELSE "not_taken")
             scored == Score(self, prediction, actual_outcome)
             \* update the provider
             provided ==
                 IF provider_table >= 0
                 THEN [scored EXCEPT !.tagged_tables[provider_table][provider_index][0] =
                                         CounterUpdate(@, actual_outcome),
                                     !.base_table[base_index] =
                                         CounterUpdate(@, actual_outcome)]
                 ELSE [scored EXCEPT !.base_table[base_index] =
                                         CounterUpdate(@, actual_outcome)]
             \* allocate a new entry if the prediction was wrong
             alloc_table == IF prediction # actual_outcome
                            THEN TageFindAlloc(provided, address,
                                               self.num_tables - 1, provider_table)
                            ELSE -1
             allocated ==
                 IF alloc_table >= 0
                 THEN [provided EXCEPT
                         !.tagged_tables[alloc_table][TageGetIndex(self, address, alloc_table)] =
                             Entry(IF actual_outcome = "taken" THEN 2 ELSE 1,
                                   TageGetTag(self, address, self.history_lengths[alloc_table]),
                                   0)]
                 ELSE provided
         IN  Return([allocated EXCEPT
                       !.global_history =
                           IF self.max_history > 0
                           THEN ShiftHistory(@, actual_outcome, self.max_history)
                           ELSE @],
                    "None")

\* an update that allocates in every table above the provider whose slot is free
TageUpdateAllocatesAll(self, address, actual_outcome) ==
    IF TageHashError(self, address) # "none" THEN Raise(self, TageHashError(self, address))
    ELSE LET provider_table == TageFindProvider(self, address, self.num_tables - 1)
             provider_index == IF provider_table >= 0
                               THEN TageGetIndex(self, address, provider_table) ELSE -1
             base_index == TageGetBaseIndex(self, address)
             prediction ==
                 IF provider_table >= 0
                 THEN (IF self.tagged_tables[provider_table][provider_index][0] >= 2
                       THEN "taken" ELSE "not_taken")
                 ELSE (IF self.base_table[base_index] >= 2 THEN "taken" ELSE "not_taken")
             scored == Score(self, prediction, actual_outcome)
             \* update the provider
             provided ==
                 IF provider_table >= 0
                 THEN [scored EXCEPT !.tagged_tables[provider_table][provider_index][0] =
                                         CounterUpdate(@, actual_outcome)]
                 ELSE [scored EXCEPT !.base_table[base_index] =
                                         CounterUpdate(@, actual_outcome)]
             \* allocate a new entry if the prediction was wrong
             alloc_table == IF prediction # actual_outcome
                            THEN TageFindAlloc(provided, address,
                                               self.num_tables - 1, provider_table)
                            ELSE -1
             allocated ==
                 IF alloc_table >= 0
                 THEN [provided EXCEPT
                         !.tagged_tables =
                             [i \in DOMAIN @ |->
                                IF i > provider_table
                                   /\ @[i][TageGetIndex(self, address, i)][2] = 0
                                THEN [@[i] EXCEPT
                                        ![TageGetIndex(self, address, i)] =
                                            Entry(IF actual_outcome = "taken" THEN 2 ELSE 1,
                                                  TageGetTag(self, address,
                                                             self.history_lengths[i]),
                                                  0)]
                                ELSE @[i]]]
                 ELSE provided
         IN  Return([allocated EXCEPT
                       !.global_history =
                           IF self.max_history > 0
                           THEN ShiftHistory(@, actual_outcome, self.max_history)
                           ELSE @],
                    "None")

\* an update that advances the global history before it looks up the provider
TageUpdateShiftsFirst(self, address, actual_outcome) ==
    IF TageHashError(self, address) # "none" THEN Raise(self, TageHashError(self, address))
    ELSE LET shifted ==
                 [self EXCEPT !.global_history =
                                  IF self.max_history > 0
                                  THEN ShiftHistory(@, actual_outcome, self.max_history)
                                  ELSE @]
             provider_table == TageFindProvider(shifted, address, shifted.num_tables - 1)
             provider_index == IF provider_table >= 0
                               THEN TageGetIndex(shifted, address, provider_table) ELSE -1
             base_index == TageGetBaseIndex(shifted, address)
             prediction ==
                 IF provider_table >= 0
                 THEN (IF shifted.tagged_tables[provider_table][provider_index][0] >= 2
                       THEN "taken" ELSE "not_taken")
                 ELSE (IF shifted.base_table[base_index] >= 2 THEN "taken" ELSE "not_taken")
             scored == Score(shifted, prediction, actual_outcome)
             \* update the provider
             provided ==
                 IF provider_table >= 0
                 THEN [scored EXCEPT !.tagged_tables[provider_table][provider_index][0] =
                                         CounterUpdate(@, actual_outcome)]
                 ELSE [scored EXCEPT !.base_table[base_index] =
                                         CounterUpdate(@, actual_outcome)]
             \* allocate a new entry if the prediction was wrong
             alloc_table == IF prediction # actual_outcome
                            THEN TageFindAlloc(provided, address,
                                               shifted.num_tables - 1, provider_table)
                            ELSE -1
             allocated ==
                 IF alloc_table >= 0
                 THEN [provided EXCEPT
                         !.tagged_tables[alloc_table][TageGetIndex(shifted, address, alloc_table)] =
                             Entry(IF actual_outcome = "taken" THEN 2 ELSE 1,
                                   TageGetTag(shifted, address, shifted.history_lengths[alloc_table]),
                                   0)]
                 ELSE provided
         IN  Return(allocated, "None")

\* an update that marks the provider entry useful when its prediction was right
TageUpdateMarksUseful(self, address, actual_outcome) ==
    IF TageHashError(self, address) # "none" THEN Raise(self, TageHashError(self, address))
    ELSE LET provider_table == TageFindProvider(self, address, self.num_tables - 1)
             provider_index == IF provider_table >= 0
                               THEN TageGetIndex(self, address, provider_table) ELSE -1
             base_index == TageGetBaseIndex(self, address)
             prediction ==
                 IF provider_table >= 0
                 THEN (IF self.tagged_tables[provider_table][provider_index][0] >= 2
                       THEN "taken" ELSE "not_taken")
                 ELSE (IF self.base_table[base_index] >= 2 THEN "taken" ELSE "not_taken")
             scored == Score(self, prediction, actual_outcome)
             \* update the provider
             provided ==
                 IF provider_table >= 0
                 THEN [scored EXCEPT !.tagged_tables[provider_table][provider_index][0] =
                                         CounterUpdate(@, actual_outcome),
                                     !.tagged_tables[provider_table][provider_index][2] =
                                         IF prediction = actual_outcome THEN 1 ELSE @]
                 ELSE [scored EXCEPT !.base_table[base_index] =
                                         CounterUpdate(@, actual_outcome)]
             \* allocate a new entry if the prediction was wrong
             alloc_table == IF prediction # actual_outcome
                            THEN TageFindAlloc(provided, address,
                                               self.num_tables - 1, provider_table)
                            ELSE -1
             allocated ==
                 IF alloc_table >= 0
                 THEN [provided EXCEPT
                         !.tagged_tables[alloc_table][TageGetIndex(self, address, alloc_table)] =
                             Entry(IF actual_outcome = "taken" THEN 2 ELSE 1,
                                   TageGetTag(self, address, self.history_lengths[alloc_table]),
                                   0)]
                 ELSE provided
         IN  Return([allocated EXCEPT
                       !.global_history =
                           IF self.max_history > 0
                           THEN ShiftHistory(@, actual_outcome, self.max_history)
                           ELSE @],
                    "None")

\* an update that shifts the outcome into the global history without masking it to max_history bits
TageUpdateHistoryUnmasked(self, address, actual_outcome) ==
    IF TageHashError(self, address) # "none" THEN Raise(self, TageHashError(self, address))
    ELSE LET provider_table == TageFindProvider(self, address, self.num_tables - 1)
             provider_index == IF provider_table >= 0
                               THEN TageGetIndex(self, address, provider_table) ELSE -1
             base_index == TageGetBaseIndex(self, address)
             prediction ==
                 IF provider_table >= 0
                 THEN (IF self.tagged_tables[provider_table][provider_index][0] >= 2
                       THEN "taken" ELSE "not_taken")
                 ELSE (IF self.base_table[base_index] >= 2 THEN "taken" ELSE "not_taken")
             scored == Score(self, prediction, actual_outcome)
             \* update the provider
             provided ==
                 IF provider_table >= 0
                 THEN [scored EXCEPT !.tagged_tables[provider_table][provider_index][0] =
                                         CounterUpdate(@, actual_outcome)]
                 ELSE [scored EXCEPT !.base_table[base_index] =
                                         CounterUpdate(@, actual_outcome)]
             \* allocate a new entry if the prediction was wrong
             alloc_table == IF prediction # actual_outcome
                            THEN TageFindAlloc(provided, address,
                                               self.num_tables - 1, provider_table)
                            ELSE -1
             allocated ==
                 IF alloc_table >= 0
                 THEN [provided EXCEPT
                         !.tagged_tables[alloc_table][TageGetIndex(self, address, alloc_table)] =
                             Entry(IF actual_outcome = "taken" THEN 2 ELSE 1,
                                   TageGetTag(self, address, self.history_lengths[alloc_table]),
                                   0)]
                 ELSE provided
         IN  Return([allocated EXCEPT
                       !.global_history =
                           @ * 2 + (IF actual_outcome = "taken" THEN 1 ELSE 0)],
                    "None")

TageUpdate(self, address, actual_outcome) ==
    IF TageHashError(self, address) # "none" THEN Raise(self, TageHashError(self, address))
    ELSE LET provider_table == TageFindProvider(self, address, self.num_tables - 1)
             provider_index == IF provider_table >= 0
                               THEN TageGetIndex(self, address, provider_table) ELSE -1
             base_index == TageGetBaseIndex(self, address)
             prediction ==
                 IF provider_table >= 0
                 THEN (IF self.tagged_tables[provider_table][provider_index][0] >= 2
                       THEN "taken" ELSE "not_taken")
                 ELSE (IF self.base_table[base_index] >= 2 THEN "taken" ELSE "not_taken")
             scored == Score(self, prediction, actual_outcome)
             \* update the provider
             provided ==
                 IF provider_table >= 0
                 THEN [scored EXCEPT !.tagged_tables[provider_table][provider_index][0] =
                                         CounterUpdate(@, actual_outcome)]
                 ELSE [scored EXCEPT !.base_table[base_index] =
                                         CounterUpdate(@, actual_outcome)]
             \* allocate a new entry if the prediction was wrong
             alloc_table == IF prediction # actual_outcome
                            THEN TageFindAlloc(provided, address,
                                               self.num_tables - 1, provider_table)
                            ELSE -1
             allocated ==
                 IF alloc_table >= 0
                 THEN [provided EXCEPT
                         !.tagged_tables[alloc_table][TageGetIndex(self, address, alloc_table)] =
                             Entry(IF actual_outcome = "taken" THEN 2 ELSE 1,
                                   TageGetTag(self, address, self.history_lengths[alloc_table]),
                                   0)]
                 ELSE provided
         IN  Return([allocated EXCEPT
                       !.global_history =
                           IF self.max_history > 0
                           THEN ShiftHistory(@, actual_outcome, self.max_history)
                           ELSE @],
                    "None")

\* a reset that leaves the global history as it is
TageResetKeepsHistory(self) ==
    [BaseReset(self) EXCEPT
       !.base_table = [n \in 0..(self.base_table_size - 1) |-> 1],
       !.tagged_tables = [i \in 0..(self.num_tables - 1) |->
                            [n \in 0..(self.base_table_size - 1) |-> Entry(1, 0, 0)]]]

TageReset(self) ==
    [BaseReset(self) EXCEPT
       !.base_table = [n \in 0..(self.base_table_size - 1) |-> 1],
       !.tagged_tables = [i \in 0..(self.num_tables - 1) |->
                            [n \in 0..(self.base_table_size - 1) |-> Entry(1, 0, 0)]],
       !.global_history = 0]

(***************************************************************************)
(* Dispatch on the class of the object                                     *)
(***************************************************************************)
Predict(self, address) ==
    CASE self.name = "Always Taken" -> AlwaysTakenPredict(self, address)
      [] self.name = "Never Taken" -> NeverTakenPredict(self, address)
      [] self.name = "Bimodal" -> BimodalPredict(self, address)
      [] self.name = "GShare" -> GSharePredict(self, address)
      [] self.name = "Perceptron" -> PerceptronPredict(self, address)
      [] self.name = "TAGE" -> TagePredict(self, address)

Update(self, address, actual_outcome) ==
    CASE self.name = "Always Taken" -> AlwaysTakenUpdate(self, address, actual_outcome)
      [] self.name = "Never Taken" -> NeverTakenUpdate(self, address, actual_outcome)
      [] self.name = "Bimodal" -> BimodalUpdate(self, address, actual_outcome)
      [] self.name = "GShare" -> GShareUpdate(self, address, actual_outcome)
      [] self.name = "Perceptron" -> PerceptronUpdate(self, address, actual_outcome)
      [] self.name = "TAGE" -> TageUpdate(self, address, actual_outcome)

Reset(self) ==
    CASE self.name \in {"Always Taken", "Never Taken"} -> BaseReset(self)
      [] self.name = "Bimodal" -> BimodalReset(self)
      [] self.name = "GShare" -> GShareReset(self)
      [] self.name = "Perceptron" -> PerceptronReset(self)
      [] self.name = "TAGE" -> TageReset(self)

\* the object a constructor call with the configuration of self returns
Constructed(self) ==
    CASE self.name = "Always Taken" -> AlwaysTakenPredictor
      [] self.name = "Never Taken" -> NeverTakenPredictor
      [] self.name = "Bimodal" -> BimodalPredictor(self.table_size)
      [] self.name = "GShare" -> GSharePredictor(self.history_bits, self.table_size)
      [] self.name = "Perceptron" ->
             PerceptronPredictor(self.history_length, self.table_size, self.threshold)
      [] self.name = "TAGE" -> TAGEPredictor(self.num_tables, self.base_table_size)

\* the predictors of get_all_predictors, in the configuration of the model,
\* and a TAGE predictor without tagged tables
Predictors ==
    { AlwaysTakenPredictor,
      NeverTakenPredictor,
      BimodalPredictor(TableSize),
      GSharePredictor(HistoryBits, TableSize),
      PerceptronPredictor(HistoryLength, TableSize, PerceptronThreshold),
      TAGEPredictor(NumTables, TableSize),
      TAGEPredictor(0, TableSize) }

(***************************************************************************)
(* The state machine: one predictor object driven by its caller.           *)
(*   pred  - the predictor object                                          *)
(*   trace - the entries whose update returned since construction or the   *)
(*           last reset, oldest first                                      *)
(*   last  - the last call: method, arguments, result, and the object      *)
(*           before the call                                               *)
(* The harness and the concurrent passes further down have their own       *)
(* state, which stays at its idle value here:                              *)
(*   harness - the frame of evaluate_predictor / test_predictor            *)
(*   workers - the frames of the concurrent passes                         *)
(*   heap    - the predictor objects of the concurrent passes              *)
(***************************************************************************)
Idle == [pc |-> "idle"]

Call(op, address, outcome, ret, pre) ==
    [op |-> op, address |-> address, outcome |-> outcome, ret |-> ret, pre |-> pre]

Init ==
    /\ pred \in Predictors
    /\ trace = <<>>
    /\ last = Call("init", <<>>, "-", [exc |-> "none", val |-> "-"], pred)
    /\ harness = Idle
    /\ workers = <<>>
    /\ heap = <<>>

DoPredict(address) ==
    LET r == Predict(pred, address)
    IN  /\ pred' = r.self
        /\ last' = Call("predict", address, "-", r.ret, pred)
        /\ UNCHANGED <<trace, harness, workers, heap>>

DoUpdate(address, actual_outcome) ==
    LET r == Update(pred, address, actual_outcome)
    IN  /\ Len(trace) < MaxTrace
        /\ pred' = r.self
        /\ trace' = IF r.ret.exc = "none"
                    THEN Append(trace, [address |-> address, outcome |-> actual_outcome])
                    ELSE trace
        /\ last' = Call("update", address, actual_outcome, r.ret, pred)
        /\ UNCHANGED <<harness, workers, heap>>

DoGetAccuracy ==
    LET r == GetAccuracy(pred)
    IN  /\ pred' = r.self
        /\ last' = Call("get_accuracy", <<>>, "-", r.ret, pred)
        /\ UNCHANGED <<trace, harness, workers, heap>>

DoReset ==
    /\ pred' = Reset(pred)
    /\ trace' = <<>>
    /\ last' = Call("reset", <<>>, "-", [exc |-> "none", val |-> "None"], pred)
    /\ UNCHANGED <<harness, workers, heap>>

Next ==
    \/ \E address \in Tokens : DoPredict(address)
    \/ \E address \in Tokens, actual_outcome \in Outcomes : DoUpdate(address, actual_outcome)
    \/ DoGetAccuracy
    \/ DoReset

Spec == Init /\ [][Next]_vars

(***************************************************************************)
(* The same caller with short traces, more tokens to predict on, and the   *)
(* constructor arguments the caller may pass.                              *)
(***************************************************************************)
ShortNext ==
    \/ \E address \in Tokens \cup HashTokens : DoPredict(address)
    \/ \E address \in Tokens, actual_outcome \in Outcomes :
           Len(trace) < MaxShortTrace /\ DoUpdate(address, actual_outcome)
    \/ DoGetAccuracy
    \/ DoReset

SpecHash == Init /\ [][ShortNext]_vars

\* the objects the constructors return for table sizes and history widths
\* that are 0 or those of the model
ConfiguredPredictors ==
    { BimodalPredictor(table_size) : table_size \in {0, TableSize} }
    \cup { GSharePredictor(history_bits, table_size) :
               history_bits \in {0, HistoryBits}, table_size \in {0, TableSize} }
    \cup { PerceptronPredictor(history_length, table_size, PerceptronThreshold) :
               history_length \in {0, HistoryLength}, table_size \in {0, TableSize} }
    \cup { TAGEPredictor(NumTables, base_table_size) : base_table_size \in {0, TableSize} }

ConfigInit ==
    /\ pred \in ConfiguredPredictors
    /\ trace = <<>>
    /\ last = Call("init", <<>>, "-", [exc |-> "none", val |-> "-"], pred)
    /\ harness = Idle
    /\ workers = <<>>
    /\ heap = <<>>

SpecConfig == ConfigInit /\ [][ShortNext]_vars

(***************************************************************************)
(* The same caller on the TAGE predictor in the table sizes the repository *)
(* configures: the default of the constructor and of config.py, and that   *)
(* of the test.                                                            *)
(***************************************************************************)
\* base_table_size=1024
DefaultBaseTableSize == 1024

\* base_table_size=64 of test_tage_predictor
TestBaseTableSize == 64

SizedInit ==
    /\ pred \in { TAGEPredictor(NumTables, DefaultBaseTableSize),
                  TAGEPredictor(NumTables, TestBaseTableSize) }
    /\ trace = <<>>
    /\ last = Call("init", <<>>, "-", [exc |-> "none", val |-> "-"], pred)
    /\ harness = Idle
    /\ workers = <<>>
    /\ heap = <<>>

SpecSized == SizedInit /\ [][ShortNext]_vars

(***************************************************************************)
(* Datasets: the list of (address, outcome) pairs handed to the harness.   *)
(* A list written out is [name |-> "list", entries |-> ...]; the lists of  *)
(* the generator functions are named and their entries computed as the     *)
(* generator computes them.                                                *)
(***************************************************************************)
\* test_predictors.py: create_alternating_test_dataset
AlternatingSize == 100
AlternatingAddress == 2000

\* test_predictors.py: create_simple_test_dataset
SimpleSize == 100
SimpleBase == 1000
SimplePeriod == 20
SimpleTaken == 10

\* datagen.py: generate_ml_app_dataset, with the size of config.py
CyclicSize == 2000
CyclicAddress == 2000
CyclicPeriod == 20
CyclicTaken == 15

\* test_predictors.py: the configurations of the predictor tests
TestTableSize == 64
TestHistoryBits == 4
TestHistoryLength == 4
TestNumTables == 3

\* the digits of format(n, 'x')
RECURSIVE HexDigits(_)
HexDigits(n) ==
    IF n < 16 THEN <<DigitChars[n + 1]>>
    ELSE Append(HexDigits(n \div 16), DigitChars[(n % 16) + 1])

\* zero padding to a width
RECURSIVE ZeroPad(_, _)
ZeroPad(s, width) == IF Len(s) >= width THEN s ELSE ZeroPad(<<"0">> \o s, width)

\* f'0x{n:04x}'
FormatAddress(n) == <<"0", "x">> \o ZeroPad(HexDigits(n), 4)

TraceEntry(address, outcome) == [address |-> address, outcome |-> outcome]

ListDataset(entries) == [name |-> "list", entries |-> entries]

AlternatingDataset == [name |-> "alternating"]

SimpleDataset == [name |-> "simple"]

\* the 15 taken + 5 not_taken cycle of generate_ml_app_dataset at one fixed
\* address, without the random override
CyclicDataset == [name |-> "cyclic"]

\* len(dataset)
DatasetLen(dataset) ==
    CASE dataset.name = "list" -> Len(dataset.entries)
      [] dataset.name = "alternating" -> AlternatingSize
      [] dataset.name = "simple" -> SimpleSize
      [] dataset.name = "cyclic" -> CyclicSize

\* dataset[i - 1]: the generators run over i - 1 in range(size)
DatasetAt(dataset, i) ==
    CASE dataset.name = "list" -> dataset.entries[i]
      [] dataset.name = "alternating" ->
             TraceEntry(FormatAddress(AlternatingAddress),
                        IF (i - 1) % 2 = 0 THEN "taken" ELSE "not_taken")
      [] dataset.name = "simple" ->
             TraceEntry(FormatAddress(SimpleBase + ((i - 1) % SimplePeriod)),
                        IF (i - 1) % SimplePeriod < SimpleTaken THEN "taken" ELSE "not_taken")
      [] dataset.name = "cyclic" ->
             TraceEntry(FormatAddress(CyclicAddress),
                        IF (i - 1) % CyclicPeriod < CyclicTaken THEN "taken" ELSE "not_taken")

(***************************************************************************)
(* The harness: evaluate_predictor (compare.py) and test_predictor         *)
(* (test_predictors.py).  harness is the frame of the call:                *)
(*   pc       - the statement to execute next                              *)
(*   dataset  - the dataset argument                                       *)
(*   i        - the position of the loop, from 1                           *)
(*   npredict, nupdate - the predict and update calls that returned        *)
(*   ret      - once pc = "done": the accuracy returned or the exception   *)
(*              that ended the call                                        *)
(* The harness keeps no log of its own: trace stays empty.                 *)
(***************************************************************************)
HarnessFrame(dataset) ==
    [pc |-> "reset", dataset |-> dataset, i |-> 0, npredict |-> 0, nupdate |-> 0,
     ret |-> [exc |-> "none", val |-> "-"]]

\* an exception of predict or update is not caught: it ends the harness
HarnessRaised(exc) == [harness EXCEPT !.pc = "done", !.ret = [exc |-> exc, val |-> "-"]]

\* predictor.reset()
HarnessReset ==
    /\ harness.pc = "reset"
    /\ pred' = Reset(pred)
    /\ last' = Call("reset", <<>>, "-", [exc |-> "none", val |-> "None"], pred)
    /\ harness' = [harness EXCEPT
                     !.pc = IF DatasetLen(harness.dataset) = 0 THEN "get_accuracy" ELSE "predict",
                     !.i = 1]
    /\ UNCHANGED <<trace, workers, heap>>

\* prediction = predictor.predict(address)
HarnessPredict ==
    /\ harness.pc = "predict"
    /\ LET entry == DatasetAt(harness.dataset, harness.i)
           r == Predict(pred, entry.address)
       IN  /\ pred' = r.self
           /\ last' = Call("predict", entry.address, "-", r.ret, pred)
           /\ harness' = IF r.ret.exc # "none" THEN HarnessRaised(r.ret.exc)
                         ELSE [harness EXCEPT !.pc = "update", !.npredict = @ + 1]
    /\ UNCHANGED <<trace, workers, heap>>

\* predictor.update(address, actual_outcome), and the step of the loop
HarnessUpdate ==
    /\ harness.pc = "update"
    /\ LET entry == DatasetAt(harness.dataset, harness.i)
           r == Update(pred, entry.address, entry.outcome)
       IN  /\ pred' = r.self
           /\ last' = Call("update", entry.address, entry.outcome, r.ret, pred)
           /\ harness' = IF r.ret.exc # "none" THEN HarnessRaised(r.ret.exc)
                         ELSE [harness EXCEPT
                                 !.pc = IF harness.i = DatasetLen(harness.dataset)
                                        THEN "get_accuracy" ELSE "predict",
                                 !.i = @ + 1,
                                 !.nupdate = @ + 1]
    /\ UNCHANGED <<trace, workers, heap>>

\* accuracy = predictor.get_accuracy(), and the return
HarnessGetAccuracy ==
    /\ harness.pc = "get_accuracy"
    /\ LET r == GetAccuracy(pred)
       IN  /\ pred' = r.self
           /\ last' = Call("get_accuracy", <<>>, "-", r.ret, pred)
           /\ harness' = [harness EXCEPT !.pc = "done", !.ret = r.ret]
    /\ UNCHANGED <<trace, workers, heap>>

HarnessNext ==
    \/ HarnessReset
    \/ HarnessPredict
    \/ HarnessUpdate
    \/ HarnessGetAccuracy

\* the lists of at most n entries
RECURSIVE Lists(_)
Lists(n) ==
    IF n = 0 THEN {<<>>}
    ELSE LET shorter == Lists(n - 1)
         IN  shorter \cup { Append(l, TraceEntry(address, outcome)) :
                              l \in shorter, address \in Tokens, outcome \in Outcomes }

\* the states a predictor is handed over in: as constructed, or after one update
StartObjects ==
    Predictors
    \cup { Update(p, address, outcome).self :
             p \in Predictors, address \in {<<"0">>, <<"0", "x", "1">>}, outcome \in Outcomes }

HarnessInit ==
    /\ pred \in StartObjects
    /\ trace = <<>>
    /\ last = Call("init", <<>>, "-", [exc |-> "none", val |-> "-"], pred)
    /\ harness \in { HarnessFrame(ListDataset(l)) : l \in Lists(MaxDataset) }
    /\ workers = <<>>
    /\ heap = <<>>

SpecHarness == HarnessInit /\ [][HarnessNext]_vars

\* the runs of the tests: Bimodal on the alternating and on the cyclic
\* dataset, and the four predictor tests on the simple dataset
Scenarios ==
    { <<BimodalPredictor(TableSize), AlternatingDataset>>,
      <<BimodalPredictor(TableSize), CyclicDataset>>,
      <<BimodalPredictor(TestTableSize), SimpleDataset>>,
      <<GSharePredictor(TestHistoryBits, TestTableSize), SimpleDataset>>,
      <<PerceptronPredictor(TestHistoryLength, TestTableSize, PerceptronThreshold),
        SimpleDataset>>,
      <<TAGEPredictor(TestNumTables, TestTableSize), SimpleDataset>> }

ScenarioInit ==
    /\ \E scenario \in Scenarios :
           /\ pred = scenario[1]
           /\ harness = HarnessFrame(scenario[2])
    /\ trace = <<>>
    /\ last = Call("init", <<>>, "-", [exc |-> "none", val |-> "-"], pred)
    /\ workers = <<>>
    /\ heap = <<>>

SpecScenario == ScenarioInit /\ [][HarnessNext]_vars

\* GSharePredictor.__init__: the default history width and table size
DefaultHistoryBits == 10
DefaultTableSize == 1024

\* the widest history register of the GShare objects run on the alternating
\* dataset
MaxWidth == 4

\* GShare on the alternating dataset: every history width up to MaxWidth with
\* a table of 2^width and of 2^(width + 1) counters, the configuration of the
\* test and the default one
AlternationScenarios ==
    { <<GSharePredictor(w, Pow2(w + more)), AlternatingDataset>> :
        w \in 1..MaxWidth, more \in {0, 1} }
    \cup { <<GSharePredictor(TestHistoryBits, TestTableSize), AlternatingDataset>>,
           <<GSharePredictor(DefaultHistoryBits, DefaultTableSize), AlternatingDataset>> }

AlternationInit ==
    /\ \E scenario \in AlternationScenarios :
           /\ pred = scenario[1]
           /\ harness = HarnessFrame(scenario[2])
    /\ trace = <<>>
    /\ last = Call("init", <<>>, "-", [exc |-> "none", val |-> "-"], pred)
    /\ workers = <<>>
    /\ heap = <<>>

SpecAlternation == AlternationInit /\ [][HarnessNext]_vars

(***************************************************************************)
(* Several harness calls at once, each on a worker of its own.  heap is    *)
(* the sequence of the predictor objects allocated, an object's reference  *)
(* its position; workers[w] is the frame of worker w:                      *)
(*   ref      - the reference of the predictor argument                    *)
(*   pc, i, nupdate, ret - as in the frame of the harness                  *)
(* The dataset is the one list of harness.dataset, read by every worker.   *)
(* A predict or an update call is one step of its worker.                  *)
(***************************************************************************)
MaxShared == 2

PredictorNames == {"Always Taken", "Never Taken", "Bimodal", "GShare", "Perceptron", "TAGE"}

\* the position of a name in the dictionary of get_all_predictors
NameOrder ==
    [name \in PredictorNames |->
        CASE name = "Always Taken" -> 1
          [] name = "Never Taken" -> 2
          [] name = "Bimodal" -> 3
          [] name = "GShare" -> 4
          [] name = "Perceptron" -> 5
          [] name = "TAGE" -> 6]

\* a get_all_predictors that hands out the objects of its first call again
GetAllPredictorsCached(h) ==
    IF h # <<>> THEN [heap |-> h, ret |-> NameOrder]
    ELSE [heap |-> <<AlwaysTakenPredictor,
                     NeverTakenPredictor,
                     BimodalPredictor(TableSize),
                     GSharePredictor(HistoryBits, TableSize),
                     PerceptronPredictor(HistoryLength, TableSize, PerceptronThreshold),
                     TAGEPredictor(NumTables, TableSize)>>,
          ret |-> NameOrder]

\* get_all_predictors called with the objects h allocated so far: six
\* constructor calls, each a new object, and the dictionary of their references
GetAllPredictors(h) ==
    [heap |-> h \o <<AlwaysTakenPredictor,
                     NeverTakenPredictor,
                     BimodalPredictor(TableSize),
                     GSharePredictor(HistoryBits, TableSize),
                     PerceptronPredictor(HistoryLength, TableSize, PerceptronThreshold),
                     TAGEPredictor(NumTables, TableSize)>>,
     ret |-> [name \in PredictorNames |-> Len(h) + NameOrder[name]]]

WorkerFrame(ref) ==
    [ref |-> ref, pc |-> "reset", i |-> 0, nupdate |-> 0, ret |-> [exc |-> "none", val |-> "-"]]

WorkerRaised(w, exc) ==
    [workers EXCEPT ![w].pc = "done", ![w].ret = [exc |-> exc, val |-> "-"]]

\* predictor.reset()
WorkerReset(w) ==
    /\ workers[w].pc = "reset"
    /\ heap' = [heap EXCEPT ![workers[w].ref] = Reset(@)]
    /\ workers' = [workers EXCEPT
                     ![w].pc = IF DatasetLen(harness.dataset) = 0
                               THEN "get_accuracy" ELSE "predict",
                     ![w].i = 1]
    /\ UNCHANGED <<pred, trace, last, harness>>

\* prediction = predictor.predict(address)
WorkerPredict(w) ==
    /\ workers[w].pc = "predict"
    /\ LET entry == DatasetAt(harness.dataset, workers[w].i)
           r == Predict(heap[workers[w].ref], entry.address)
       IN  /\ heap' = [heap EXCEPT ![workers[w].ref] = r.self]
           /\ workers' = IF r.ret.exc # "none" THEN WorkerRaised(w, r.ret.exc)
                         ELSE [workers EXCEPT ![w].pc = "update"]
    /\ UNCHANGED <<pred, trace, last, harness>>

\* predictor.update(address, actual_outcome), and the step of the loop
WorkerUpdate(w) ==
    /\ workers[w].pc = "update"
    /\ LET entry == DatasetAt(harness.dataset, workers[w].i)
           r == Update(heap[workers[w].ref], entry.address, entry.outcome)
       IN  /\ heap' = [heap EXCEPT ![workers[w].ref] = r.self]
           /\ workers' = IF r.ret.exc # "none" THEN WorkerRaised(w, r.ret.exc)
                         ELSE [workers EXCEPT
                                 ![w].pc = IF workers[w].i = DatasetLen(harness.dataset)
                                           THEN "get_accuracy" ELSE "predict",
                                 ![w].i = @ + 1,
                                 ![w].nupdate = @ + 1]
    /\ UNCHANGED <<pred, trace, last, harness>>

\* accuracy = predictor.get_accuracy(), and the return
WorkerGetAccuracy(w) ==
    /\ workers[w].pc = "get_accuracy"
    /\ LET r == GetAccuracy(heap[workers[w].ref])
       IN  /\ heap' = [heap EXCEPT ![workers[w].ref] = r.self]
           /\ workers' = [workers EXCEPT ![w].pc = "done", ![w].ret = r.ret]
    /\ UNCHANGED <<pred, trace, last, harness>>

WorkersNext ==
    \/ \E w \in DOMAIN workers : WorkerReset(w)
    \/ \E w \in DOMAIN workers : WorkerPredict(w)
    \/ \E w \in DOMAIN workers : WorkerUpdate(w)
    \/ \E w \in DOMAIN workers : WorkerGetAccuracy(w)

\* the tokens of the shared dataset
SharedTokens == { <<"0">>, <<"0", "x", "1">> }

\* the lists of at most n entries over the shared tokens
RECURSIVE SharedLists(_)
SharedLists(n) ==
    IF n = 0 THEN {<<>>}
    ELSE LET shorter == SharedLists(n - 1)
         IN  shorter \cup { Append(l, TraceEntry(address, outcome)) :
                              l \in shorter, address \in SharedTokens, outcome \in Outcomes }

\* the frame of the caller that waits for its workers
Joining(dataset) == [pc |-> "join", dataset |-> dataset]

\* two calls of get_all_predictors, and two workers: one on a predictor of
\* the first dictionary, one on a predictor of the second
WorkersInit ==
    LET first == GetAllPredictors(<<>>)
        second == GetAllPredictors(first.heap)
    IN  /\ heap = second.heap
        /\ \E a \in PredictorNames, b \in PredictorNames :
               workers = <<WorkerFrame(first.ret[a]), WorkerFrame(second.ret[b])>>
        /\ harness \in { Joining(ListDataset(l)) : l \in SharedLists(MaxShared) }
        /\ pred = <<>>
        /\ trace = <<>>
        /\ last = Call("init", <<>>, "-", [exc |-> "none", val |-> "-"], <<>>)

SpecWorkers == WorkersInit /\ [][WorkersNext]_vars

(***************************************************************************)
(* Two passes over the shared dataset on ONE GShare object, each on a      *)
(* worker of its own: the caller resets the object and each worker runs    *)
(* the loop of the harness.  GSharePredictor.update takes no lock, so a    *)
(* worker may be descheduled between any two of its reads and writes of    *)
(* the object: every read and every write of a field is a step.  The frame *)
(* of a worker holds the locals of update:                                 *)
(*   index, prediction - the locals of those names                         *)
(*   tmp               - the value read by the read half of "+= 1", of the *)
(*                       counter assignment, of the history assignment     *)
(***************************************************************************)
MaxRace == 1

PassFrame(ref) ==
    [ref |-> ref, pc |-> "predict", i |-> 1, nupdate |-> 0,
     ret |-> [exc |-> "none", val |-> "-"],
     index |-> 0, prediction |-> "-", tmp |-> 0]

\* the entry of the iteration worker w is in
PassEntry(w) == DatasetAt(harness.dataset, workers[w].i)

\* a worker step that writes no field of the object
PassLocal(w, frame) ==
    /\ workers' = [workers EXCEPT ![w] = frame]
    /\ UNCHANGED <<pred, trace, last, harness, heap>>

\* a worker step that writes the object
PassWrite(w, frame, self) ==
    /\ workers' = [workers EXCEPT ![w] = frame]
    /\ heap' = [heap EXCEPT ![workers[w].ref] = self]
    /\ UNCHANGED <<pred, trace, last, harness>>

\* prediction = predictor.predict(address): the result is not used
PassPredict(w) ==
    /\ workers[w].pc = "predict"
    /\ LET r == GSharePredict(heap[workers[w].ref], PassEntry(w).address)
       IN  PassLocal(w, IF r.ret.exc # "none"
                        THEN [workers[w] EXCEPT !.pc = "done", !.ret = r.ret]
                        ELSE [workers[w] EXCEPT !.pc = "index"])

\* index = self._get_index(address)
PassIndex(w) ==
    /\ workers[w].pc = "index"
    /\ LET index == GShareGetIndex(heap[workers[w].ref], PassEntry(w).address)
       IN  PassLocal(w, IF index.exc # "none"
                        THEN [workers[w] EXCEPT !.pc = "done",
                                                !.ret = [exc |-> index.exc, val |-> "-"]]
                        ELSE [workers[w] EXCEPT !.pc = "prediction", !.index = index.val])

\* prediction = 'taken' if self.table[index] >= 2 else 'not_taken'
PassPrediction(w) ==
    /\ workers[w].pc = "prediction"
    /\ PassLocal(w, [workers[w] EXCEPT
                       !.pc = "load_total",
                       !.prediction = CounterPredict(
                                          heap[workers[w].ref].table[workers[w].index])])

\* self.total_predictions += 1: the read
PassLoadTotal(w) ==
    /\ workers[w].pc = "load_total"
    /\ PassLocal(w, [workers[w] EXCEPT !.pc = "store_total",
                                      !.tmp = heap[workers[w].ref].total_predictions])

\* a write of total_predictions that adds to the value the field has now
StoreTotalAtomic(self, tmp) == [self EXCEPT !.total_predictions = @ + 1]

\* self.total_predictions += 1: the write, of the value read plus one
StoreTotal(self, tmp) == [self EXCEPT !.total_predictions = tmp + 1]

PassStoreTotal(w) ==
    /\ workers[w].pc = "store_total"
    /\ PassWrite(w, [workers[w] EXCEPT
                       !.pc = IF workers[w].prediction = PassEntry(w).outcome
                              THEN "load_correct" ELSE "load_counter"],
                 StoreTotal(heap[workers[w].ref], workers[w].tmp))

\* self.correct_predictions += 1: the read
PassLoadCorrect(w) ==
    /\ workers[w].pc = "load_correct"
    /\ PassLocal(w, [workers[w] EXCEPT !.pc = "store_correct",
                                      !.tmp = heap[workers[w].ref].correct_predictions])

\* self.correct_predictions += 1: the write
PassStoreCorrect(w) ==
    /\ workers[w].pc = "store_correct"
    /\ PassWrite(w, [workers[w] EXCEPT !.pc = "load_counter"],
                 [heap[workers[w].ref] EXCEPT !.correct_predictions = workers[w].tmp + 1])

\* self.table[index] = min(3, self.table[index] + 1) or max(0, ... - 1): the read
PassLoadCounter(w) ==
    /\ workers[w].pc = "load_counter"
    /\ PassLocal(w, [workers[w] EXCEPT !.pc = "store_counter",
                                      !.tmp = heap[workers[w].ref].table[workers[w].index]])

\* the write of the counter
PassStoreCounter(w) ==
    /\ workers[w].pc = "store_counter"
    /\ PassWrite(w, [workers[w] EXCEPT !.pc = "load_history"],
                 [heap[workers[w].ref] EXCEPT
                    !.table[workers[w].index] =
                        CounterUpdate(workers[w].tmp, PassEntry(w).outcome)])

\* self.history = ((self.history << 1) | bit) & mask: the read
PassLoadHistory(w) ==
    /\ workers[w].pc = "load_history"
    /\ PassLocal(w, [workers[w] EXCEPT !.pc = "store_history",
                                      !.tmp = heap[workers[w].ref].history])

\* the write of the history, the return of update and the step of the loop
PassStoreHistory(w) ==
    /\ workers[w].pc = "store_history"
    /\ PassWrite(w, [workers[w] EXCEPT
                       !.pc = IF workers[w].i = DatasetLen(harness.dataset)
                              THEN "done" ELSE "predict",
                       !.i = @ + 1,
                       !.nupdate = @ + 1],
                 [heap[workers[w].ref] EXCEPT
                    !.history = ShiftHistory(workers[w].tmp, PassEntry(w).outcome,
                                             heap[workers[w].ref].history_bits)])

RaceNext ==
    \/ \E w \in DOMAIN workers : PassPredict(w)
    \/ \E w \in DOMAIN workers : PassIndex(w)
    \/ \E w \in DOMAIN workers : PassPrediction(w)
    \/ \E w \in DOMAIN workers : PassLoadTotal(w)
    \/ \E w \in DOMAIN workers : PassStoreTotal(w)
    \/ \E w \in DOMAIN workers : PassLoadCorrect(w)
    \/ \E w \in DOMAIN workers : PassStoreCorrect(w)
    \/ \E w \in DOMAIN workers : PassLoadCounter(w)
    \/ \E w \in DOMAIN workers : PassStoreCounter(w)
    \/ \E w \in DOMAIN workers : PassLoadHistory(w)
    \/ \E w \in DOMAIN workers : PassStoreHistory(w)

\* one GShare object, reset, and two passes over a dataset that is not empty
RaceInit ==
    /\ heap = <<GShareReset(GSharePredictor(HistoryBits, TableSize))>>
    /\ workers = <<PassFrame(1), PassFrame(1)>>
    /\ harness \in { Joining(ListDataset(l)) : l \in SharedLists(MaxRace) \ {<<>>} }
    /\ pred = <<>>
    /\ trace = <<>>
    /\ last = Call("init", <<>>, "-", [exc |-> "none", val |-> "-"], <<>>)

SpecRace == RaceInit /\ [][RaceNext]_vars

(***************************************************************************)
(* calculate_accuracies (src/utils.py) over the function-style predictors  *)
(* (src/predictors.py of the src package): a predictor is a function from  *)
(* the dataset to its accuracy.  harness is the frame of the call:         *)
(*   pc         - "loop" or "done"                                         *)
(*   dataset    - the list argument                                        *)
(*   predictors - the dictionary argument, its items in order              *)
(*   i          - the position of the loop over the items, from 1          *)
(*   accuracies - the dictionary built, its items in order                 *)
(*   ret        - once pc = "done": the dictionary returned                *)
(* last is the last call of a predictor function, pre the dataset before   *)
(* it.                                                                     *)
(***************************************************************************)
MaxPredictors == 2

PredictorFunctions == {"always_taken_predictor", "never_taken_predictor", "bimodal_predictor"}

DictNames == {"Always Taken", "Never Taken", "Bimodal"}

\* sum(outcome == o for _, outcome in dataset)
CountOutcome(dataset, o) == Cardinality({ k \in 1..Len(dataset) : dataset[k].outcome = o })

\* sum(outcome == 'taken' for _, outcome in dataset) / len(dataset)
AlwaysTakenFunction(dataset) ==
    IF Len(dataset) = 0 THEN Raise(dataset, "ZeroDivisionError")
    ELSE Return(dataset, Float(CountOutcome(dataset, "taken"), Len(dataset)))

\* sum(outcome == 'not_taken' for _, outcome in dataset) / len(dataset)
NeverTakenFunction(dataset) ==
    IF Len(dataset) = 0 THEN Raise(dataset, "ZeroDivisionError")
    ELSE Return(dataset, Float(CountOutcome(dataset, "not_taken"), Len(dataset)))

\* the loop of bimodal_predictor from entry k on: prediction_table maps the
\* addresses seen to their counters, a new address starts at 2
RECURSIVE BimodalFunctionLoop(_, _, _, _)
BimodalFunctionLoop(dataset, k, prediction_table, correct_predictions) ==
    IF k > Len(dataset) THEN correct_predictions
    ELSE LET address == dataset[k].address
             outcome == dataset[k].outcome
             counter == IF address \in DOMAIN prediction_table
                        THEN prediction_table[address] ELSE 2
             prediction == IF counter >= 2 THEN "taken" ELSE "not_taken"
             stepped == IF outcome = "taken" THEN Min(3, counter + 1) ELSE Max(0, counter - 1)
         IN  BimodalFunctionLoop(
                 dataset, k + 1,
                 [a \in DOMAIN prediction_table \cup {address} |->
                    IF a = address THEN stepped ELSE prediction_table[a]],
                 correct_predictions + (IF prediction = outcome THEN 1 ELSE 0))

\* bimodal_predictor(dataset) with initial_prediction = 'taken'
BimodalFunction(dataset) ==
    LET correct_predictions ==
            BimodalFunctionLoop(dataset, 1, [a \in {} |-> 0], 0)
    IN  IF Len(dataset) = 0 THEN Raise(dataset, "ZeroDivisionError")
        ELSE Return(dataset, Float(correct_predictions, Len(dataset)))

\* predictor(dataset)
CallFunction(function, dataset) ==
    CASE function = "always_taken_predictor" -> AlwaysTakenFunction(dataset)
      [] function = "never_taken_predictor" -> NeverTakenFunction(dataset)
      [] function = "bimodal_predictor" -> BimodalFunction(dataset)

DictItem(name, value) == [name |-> name, value |-> value]

\* d[name] = value on a dictionary kept as the list of its items
DictSet(d, name, value) ==
    IF \E k \in 1..Len(d) : d[k].name = name
    THEN [k \in 1..Len(d) |-> IF d[k].name = name THEN DictItem(name, value) ELSE d[k]]
    ELSE Append(d, DictItem(name, value))

\* the dictionaries of at most n items, name -> predictor function
RECURSIVE PredictorDicts(_)
PredictorDicts(n) ==
    IF n = 0 THEN {<<>>}
    ELSE LET smaller == PredictorDicts(n - 1)
         IN  smaller \cup { DictSet(d, name, function) :
                              d \in smaller, name \in DictNames, function \in PredictorFunctions }

\* an except clause that stores nothing for the predictor that raised
AccuraciesStoreSkipsFailed(accuracies, name, r) ==
    IF r.ret.exc = "none" THEN DictSet(accuracies, name, r.ret.val)
    ELSE accuracies

\* try: accuracies[name] = predictor(dataset)
\* except Exception: accuracies[name] = 0.0
AccuraciesStore(accuracies, name, r) ==
    IF r.ret.exc = "none" THEN DictSet(accuracies, name, r.ret.val)
    ELSE DictSet(accuracies, name, <<0, 1>>)

AccuraciesFrame(dataset, predictors) ==
    [pc |-> "loop", dataset |-> dataset, predictors |-> predictors, i |-> 1,
     accuracies |-> <<>>, ret |-> [exc |-> "none", val |-> "-"]]

\* one iteration of "for name, predictor in predictors.items()"
AccuraciesStep ==
    /\ harness.pc = "loop"
    /\ harness.i <= Len(harness.predictors)
    /\ LET item == harness.predictors[harness.i]
           r == CallFunction(item.value, harness.dataset)
       IN  /\ harness' = [harness EXCEPT
                            !.dataset = r.self,
                            !.accuracies = AccuraciesStore(@, item.name, r),
                            !.i = @ + 1]
           /\ last' = Call(item.value, <<>>, "-", r.ret, harness.dataset)
    /\ UNCHANGED <<pred, trace, workers, heap>>

\* return accuracies
AccuraciesReturn ==
    /\ harness.pc = "loop"
    /\ harness.i > Len(harness.predictors)
    /\ harness' = [harness EXCEPT !.pc = "done",
                                  !.ret = [exc |-> "none", val |-> harness.accuracies]]
    /\ UNCHANGED <<pred, trace, last, workers, heap>>

AccuraciesNext ==
    \/ AccuraciesStep
    \/ AccuraciesReturn

AccuraciesInit ==
    /\ \E dataset \in SharedLists(MaxShared), predictors \in PredictorDicts(MaxPredictors) :
           /\ harness = AccuraciesFrame(dataset, predictors)
           /\ last = Call("init", <<>>, "-", [exc |-> "none", val |-> "-"], dataset)
    /\ pred = Idle
    /\ trace = <<>>
    /\ workers = <<>>
    /\ heap = <<>>

SpecAccuracies == AccuraciesInit /\ [][AccuraciesNext]_vars

(***************************************************************************)
(* Properties                                                              *)
(***************************************************************************)
Returned == last.ret.exc = "none"

\* the loop "for address, outcome in dataset: predictor.update(address, outcome)"
RECURSIVE RunTrace(_, _)
RunTrace(self, dataset) ==
    IF dataset = <<>> THEN self
    ELSE RunTrace(Update(self, dataset[1].address, dataset[1].outcome).self, Tail(dataset))

AllOutcomes(outcome) == \A i \in 1..Len(trace) : trace[i].outcome = outcome

\* C1: predict changes no field of the predictor object (tables, history
\* registers, weights, correct and total), and a second predict on the same
\* address right after it gives the same result.
C1_PredictIsPure ==
    last.op = "predict" =>
        /\ pred = last.pre
        /\ Predict(pred, last.address).ret = last.ret

C1_Witness ==
    /\ last.op = "predict"
    /\ Returned
    /\ pred.name = "GShare"
    /\ pred.history # 0
    /\ last.ret.val = "taken"

\* C2: an update that returns adds exactly 1 to total, and adds 1 to correct
\* exactly when predict on the object before the update gives the actual
\* outcome, and nothing otherwise.
C2_UpdateScoresPrediction ==
    (last.op = "update" /\ Returned) =>
        /\ pred.total_predictions = last.pre.total_predictions + 1
        /\ pred.correct_predictions =
               last.pre.correct_predictions
               + (IF Predict(last.pre, last.address).ret.val = last.outcome THEN 1 ELSE 0)

C2_Witness ==
    /\ last.op = "update"
    /\ Returned
    /\ pred.name = "Bimodal"
    /\ last.pre.total_predictions > 0
    /\ last.outcome = "not_taken"
    /\ pred.correct_predictions = last.pre.correct_predictions + 1

\* C3: total is the number of trace entries processed by update since
\* construction or the last reset, and 0 <= correct <= total in every state.
C3_TotalIsTraceLength ==
    /\ pred.total_predictions = Len(trace)
    /\ 0 <= pred.correct_predictions
    /\ pred.correct_predictions <= pred.total_predictions

C3_Witness ==
    /\ last.op = "update"
    /\ Len(trace) = MaxTrace
    /\ pred.total_predictions = MaxTrace
    /\ 0 < pred.correct_predictions
    /\ pred.correct_predictions < pred.total_predictions

\* C4: get_accuracy raises nothing and changes nothing; it returns 0.0 when
\* total is 0 and the quotient correct/total otherwise.
C4_AccuracyDefined ==
    last.op = "get_accuracy" =>
        /\ Returned
        /\ pred = last.pre
        /\ pred.total_predictions = 0 => last.ret.val = <<0, 1>>
        /\ pred.total_predictions > 0 =>
               /\ last.ret.val[2] > 0
               /\ last.ret.val[1] * pred.total_predictions
                      = pred.correct_predictions * last.ret.val[2]

C4_Witness ==
    /\ last.op = "get_accuracy"
    /\ pred.total_predictions = 0
    /\ last.ret = [exc |-> "none", val |-> <<0, 1>>]

\* C5: after reset the predictor object equals the object its constructor
\* returns for the same configuration, whatever was called before.
C5_ResetRestoresConstruction ==
    last.op = "reset" =>
        /\ pred = Constructed(last.pre)
        /\ pred.correct_predictions = 0
        /\ pred.total_predictions = 0

C5_Witness ==
    /\ last.op = "reset"
    /\ last.pre.name = "TAGE"
    /\ last.pre.global_history # 0
    /\ last.pre.tagged_tables # pred.tagged_tables
    /\ last.pre.base_table # pred.base_table

\* C6: resetting the predictor after a pass over a trace and running the same
\* trace again ends with the same (correct, total), hence the same accuracy.
C6_ReplayAfterReset ==
    LET second == RunTrace(Reset(pred), trace)
    IN  /\ second.correct_predictions = pred.correct_predictions
        /\ second.total_predictions = pred.total_predictions
        /\ GetAccuracy(second).ret = GetAccuracy(pred).ret

C6_Witness ==
    /\ last.op = "update"
    /\ pred.name = "Bimodal"
    /\ Len(trace) = MaxTrace
    /\ pred.table # Reset(pred).table
    /\ RunTrace(Reset(pred), trace).correct_predictions > 0

\* the counter an update steps: the entry of the provider, else the indexed
\* counter of the table
SteppedCounter(self, before, address) ==
    CASE self.name = "Bimodal" -> self.table[BimodalGetIndex(before, address).val]
      [] self.name = "GShare" -> self.table[GShareGetIndex(before, address).val]
      [] self.name = "TAGE" ->
             LET i == TageFindProvider(before, address, before.num_tables - 1)
             IN  IF i >= 0
                 THEN self.tagged_tables[i][TageGetIndex(before, address, i)][0]
                 ELSE self.base_table[TageGetBaseIndex(before, address)]

HasCounters == pred.name \in {"Bimodal", "GShare", "TAGE"}

\* C7: every counter of the Bimodal table, the GShare table, the TAGE base
\* table and the TAGE tagged entries is in 0..3; an update with taken on a
\* counter at 3 leaves it at 3, one with not_taken on a counter at 0 at 0.
C7_CountersSaturate ==
    /\ pred.name \in {"Bimodal", "GShare"} =>
           \A n \in DOMAIN pred.table : pred.table[n] \in 0..3
    /\ pred.name = "TAGE" =>
           /\ \A n \in DOMAIN pred.base_table : pred.base_table[n] \in 0..3
           /\ \A i \in DOMAIN pred.tagged_tables :
                  \A n \in DOMAIN pred.tagged_tables[i] :
                      pred.tagged_tables[i][n][0] \in 0..3
    /\ (HasCounters /\ last.op = "update" /\ Returned) =>
           LET c == SteppedCounter(last.pre, last.pre, last.address)
               d == SteppedCounter(pred, last.pre, last.address)
           IN  /\ (c = 3 /\ last.outcome = "taken") => d = 3
               /\ (c = 0 /\ last.outcome = "not_taken") => d = 0

C7_Witness ==
    /\ last.op = "update"
    /\ Returned
    /\ pred.name = "TAGE"
    /\ last.outcome = "taken"
    /\ TageFindProvider(last.pre, last.address, last.pre.num_tables - 1) >= 0
    /\ SteppedCounter(last.pre, last.pre, last.address) = 3
    /\ SteppedCounter(pred, last.pre, last.address) = 3

\* the history register of the object and its width
HistoryOf(self) == IF self.name = "TAGE" THEN self.global_history ELSE self.history

WidthOf(self) ==
    CASE self.name = "GShare" -> self.history_bits
      [] self.name = "Perceptron" -> self.history_length
      [] self.name = "TAGE" -> self.max_history

HasHistory == pred.name \in {"GShare", "Perceptron", "TAGE"}

\* C8: the history register is below 2^W for its width W, and after k
\* updates its low min(k, W) bits are the last min(k, W) actual outcomes,
\* the newest in bit 0, 1 for taken.
C8_HistoryRegister ==
    HasHistory =>
        /\ HistoryOf(pred) \in 0..(Pow2(WidthOf(pred)) - 1)
        /\ \A i \in 0..(Min(Len(trace), WidthOf(pred)) - 1) :
               (Shr(HistoryOf(pred), i) % 2 = 1) <=> (trace[Len(trace) - i].outcome = "taken")

C8_Witness ==
    /\ last.op = "update"
    /\ pred.name = "GShare"
    /\ Len(trace) > pred.history_bits
    /\ trace[1].outcome = "taken"
    /\ pred.history = Pow2(pred.history_bits) - 2

\* C9: on a non-empty trace of taken outcomes only, AlwaysTaken has
\* correct = total and accuracy 1.0 and NeverTaken has correct = 0 and
\* accuracy 0.0; on a non-empty trace of not_taken outcomes only, the reverse.
C9_StaticOnUniformTraces ==
    LET always == IF pred.name = "Always Taken" THEN "taken" ELSE "not_taken"
        never == IF pred.name = "Always Taken" THEN "not_taken" ELSE "taken"
    IN  (pred.name \in {"Always Taken", "Never Taken"} /\ trace # <<>>) =>
            /\ AllOutcomes(always) =>
                   /\ pred.correct_predictions = pred.total_predictions
                   /\ GetAccuracy(pred).ret.val = <<1, 1>>
            /\ AllOutcomes(never) =>
                   /\ pred.correct_predictions = 0
                   /\ GetAccuracy(pred).ret.val = <<0, 1>>

C9_Witness ==
    /\ last.op = "update"
    /\ pred.name = "Never Taken"
    /\ Len(trace) = MaxTrace
    /\ AllOutcomes("taken")
    /\ pred.correct_predictions = 0

\* C10: predict and update raise nothing, whatever the address token: every
\* token is mapped to a non-negative integer key.
C10_HasherNeverFails ==
    /\ \A address \in Tokens :
           AddressToInt(address).exc = "none" /\ AddressToInt(address).val >= 0
    /\ last.op \in {"predict", "update"} => Returned


\* the value of the tokens that are numerals: hexadecimal after the prefix
\* 0x, decimal otherwise
TokenValue ==
    (<<"0">> :> 0) @@ (<<"0", "x", "1">> :> 1) @@ (<<"3">> :> 3)
    @@ (<<"0", "x", "1", "0">> :> 16) @@ (<<"1", "0">> :> 10)
    @@ (<<"0", "x", "1", "a">> :> 26) @@ (<<"0", "0", "7">> :> 7)

Key(value) == [exc |-> "none", val |-> value]

\* C11: in every state of every variant, every numeral token is converted to
\* its value (hexadecimal after the prefix 0x, decimal otherwise), and the
\* Bimodal, GShare and Perceptron index and the TAGE base index, tagged index
\* and tag are all computed from that one value.
C11_HashIsTokenValue ==
    \A address \in DOMAIN TokenValue :
        LET value == TokenValue[address]
        IN  /\ AddressToInt(address) = Key(value)
            /\ pred.name = "Bimodal" =>
                   BimodalGetIndex(pred, address) = Key(value % pred.table_size)
            /\ pred.name = "GShare" =>
                   GShareGetIndex(pred, address)
                       = Key(BitXor(value, pred.history) % pred.table_size)
            /\ pred.name = "Perceptron" =>
                   PerceptronGetIndex(pred, address) = Key(value % pred.table_size)
            /\ pred.name = "TAGE" =>
                   /\ TageHashError(pred, address) = "none"
                   /\ TageGetBaseIndex(pred, address) = value % pred.base_table_size
                   /\ \A i \in 0..(pred.num_tables - 1) :
                          LET hist == pred.global_history % Pow2(pred.history_lengths[i])
                          IN  /\ TageGetIndex(pred, address, i)
                                     = BitXor(value, hist) % pred.base_table_size
                              /\ TageGetTag(pred, address, pred.history_lengths[i])
                                     = BitXor(value, hist) % TagSpace

C11_Witness ==
    /\ last.op = "predict"
    /\ Returned
    /\ last.address = <<"0", "x", "1", "a">>
    /\ pred.name = "TAGE"
    /\ pred.global_history # 0

ValidConfiguration(self) ==
    CASE self.name \in {"Always Taken", "Never Taken"} -> TRUE
      [] self.name = "Bimodal" -> self.table_size > 0
      [] self.name = "GShare" -> self.table_size > 0 /\ self.history_bits > 0
      [] self.name = "Perceptron" -> self.table_size > 0 /\ self.history_length > 0
      [] self.name = "TAGE" -> self.base_table_size > 0

\* C12: no predictor object with a non-positive table size or a zero-width
\* history exists for predict or update to be called on: its construction
\* ends in a configuration error.
C12_MisconfigurationFailsFast ==
    last.op \in {"predict", "update"} => ValidConfiguration(last.pre)

\* the tagged tables whose indexed entry holds the tag computed for the address
TageMatches(self, address) ==
    { i \in 0..(self.num_tables - 1) :
        self.tagged_tables[i][TageGetIndex(self, address, i)][1]
            = TageGetTag(self, address, self.history_lengths[i]) }

TageEntryPrediction(self, address, i) ==
    IF self.tagged_tables[i][TageGetIndex(self, address, i)][0] >= 2
    THEN "taken" ELSE "not_taken"

TageBasePrediction(self, address) ==
    IF self.base_table[TageGetBaseIndex(self, address)] >= 2 THEN "taken" ELSE "not_taken"

\* C13: TAGE predict returns the prediction of the matching tagged table with
\* the longest history (the highest number), whatever the base table and the
\* shorter matching tables predict, and the prediction of the base table
\* counter when no tagged table matches.
C13_ProviderPrecedence ==
    (last.op = "predict" /\ Returned /\ pred.name = "TAGE") =>
        LET matches == TageMatches(last.pre, last.address)
        IN  IF matches # {}
            THEN \E i \in matches :
                     /\ \A j \in matches : j <= i
                     /\ last.ret.val = TageEntryPrediction(last.pre, last.address, i)
            ELSE last.ret.val = TageBasePrediction(last.pre, last.address)

C13_Witness ==
    /\ last.op = "predict"
    /\ Returned
    /\ pred.name = "TAGE"
    /\ pred.num_tables - 1 \in TageMatches(pred, last.address)
    /\ \E j \in TageMatches(pred, last.address) :
           /\ j < pred.num_tables - 1
           /\ TageEntryPrediction(pred, last.address, j) # last.ret.val
    /\ TageBasePrediction(pred, last.address) # last.ret.val

IsStatic == pred.name \in {"Always Taken", "Never Taken"}

FixedPrediction(self) == IF self.name = "Always Taken" THEN "taken" ELSE "not_taken"

\* C17: AlwaysTaken predicts taken and NeverTaken not_taken for every token,
\* unparseable ones included; their update returns for every token and
\* changes the tallies only; correct is the number of taken (AlwaysTaken) or
\* not_taken (NeverTaken) outcomes of the trace.
C17_StaticIgnoresAddress ==
    IsStatic =>
        /\ last.op = "predict" => last.ret = [exc |-> "none", val |-> FixedPrediction(pred)]
        /\ last.op = "update" =>
               /\ Returned
               /\ [pred EXCEPT !.correct_predictions = 0, !.total_predictions = 0]
                      = [last.pre EXCEPT !.correct_predictions = 0, !.total_predictions = 0]
        /\ pred.correct_predictions
               = Cardinality({ i \in 1..Len(trace) : trace[i].outcome = FixedPrediction(pred) })

C17_Witness ==
    /\ last.op = "predict"
    /\ pred.name = "Always Taken"
    /\ last.address = <<"1", "a">>
    /\ last.ret.val = "taken"
    /\ pred.correct_predictions = 1
    /\ pred.total_predictions = 2


HarnessDone == harness.pc = "done"

\* the calls made so far are the pairs of the entries before the position,
\* in order: predict then update of one entry, before the predict of the next
HarnessInOrder ==
    /\ harness.pc = "predict" =>
           harness.npredict = harness.i - 1 /\ harness.nupdate = harness.i - 1
    /\ harness.pc = "update" =>
           /\ harness.npredict = harness.i /\ harness.nupdate = harness.i - 1
           /\ last.op = "predict"
           /\ last.address = DatasetAt(harness.dataset, harness.i).address
    /\ (harness.pc = "predict" /\ harness.i > 1) =>
           /\ last.op = "update"
           /\ last.address = DatasetAt(harness.dataset, harness.i - 1).address
           /\ last.outcome = DatasetAt(harness.dataset, harness.i - 1).outcome

\* C14: the harness resets, then issues predict and update entry by entry in
\* order, and for every dataset of length N it returns, after exactly N
\* predict/update pairs, the accuracy that a newly constructed predictor of
\* the same configuration has after the N updates.
C14_HarnessReturnsAccuracy ==
    /\ HarnessInOrder
    /\ HarnessDone =>
           /\ harness.ret.exc = "none"
           /\ harness.npredict = DatasetLen(harness.dataset)
           /\ harness.nupdate = DatasetLen(harness.dataset)
           /\ harness.ret = GetAccuracy(RunTrace(Constructed(pred),
                                                 harness.dataset.entries)).ret

\* the datasets without a token that raises
HarnessParses ==
    \A i \in 1..DatasetLen(harness.dataset) :
        AddressToInt(DatasetAt(harness.dataset, i).address).exc = "none"

\* C14 on the datasets whose tokens all parse
C14_OnParsedDatasets == HarnessParses => C14_HarnessReturnsAccuracy

\* C18: on the alternating dataset Bimodal predicts, from the second entry
\* on, the outcome of the entry before, scores no entry after the second,
\* and ends with at most 2 correct of 100.
C18_AlternatingDefeatsBimodal ==
    harness.dataset = AlternatingDataset =>
        /\ (harness.pc = "update" /\ harness.i >= 2) =>
               last.ret.val = DatasetAt(harness.dataset, harness.i - 1).outcome
        /\ (last.op = "update" /\ harness.nupdate > 2) =>
               pred.correct_predictions = last.pre.correct_predictions
        /\ HarnessDone =>
               /\ pred.total_predictions = AlternatingSize
               /\ pred.correct_predictions <= 2
               /\ harness.ret.val[1] * AlternatingSize <= 2 * harness.ret.val[2]

C18_Witness ==
    /\ harness.dataset = AlternatingDataset
    /\ HarnessDone
    /\ pred.name = "Bimodal"
    /\ harness.nupdate = AlternatingSize
    /\ pred.correct_predictions <= 2

\* C19 as claimed: on the cyclic dataset Bimodal ends with accuracy above 0.9.
C19_CyclicAbove90 ==
    (harness.dataset = CyclicDataset /\ HarnessDone) =>
        10 * pred.correct_predictions > 9 * pred.total_predictions

\* C19: on the 2000-entry dataset at one address with the cycle of 15 taken
\* and 5 not_taken, Bimodal ends with accuracy above 0.8 and below 0.9: it
\* misses 4 entries of every cycle, the 2 after each change of outcome.
C19_CyclicAbove80 ==
    (harness.dataset = CyclicDataset /\ HarnessDone) =>
        /\ pred.total_predictions = CyclicSize
        /\ 10 * pred.correct_predictions > 8 * pred.total_predictions
        /\ 10 * pred.correct_predictions < 9 * pred.total_predictions
        /\ 10 * harness.ret.val[1] > 8 * harness.ret.val[2]

C19_Witness ==
    /\ harness.dataset = CyclicDataset
    /\ HarnessDone
    /\ pred.name = "Bimodal"
    /\ harness.nupdate = CyclicSize
    /\ pred.correct_predictions = 1601

\* C20: on the simple dataset each of Bimodal, GShare, Perceptron and TAGE in
\* the configuration of its test ends with accuracy at least 0.3.
C20_SimpleAtLeast30 ==
    (harness.dataset = SimpleDataset /\ HarnessDone) =>
        /\ harness.ret.exc = "none"
        /\ pred.total_predictions = SimpleSize
        /\ 10 * harness.ret.val[1] >= 3 * harness.ret.val[2]

C20_Witness ==
    /\ harness.dataset = SimpleDataset
    /\ HarnessDone
    /\ pred.name = "TAGE"
    /\ pred.num_tables = TestNumTables
    /\ harness.nupdate = SimpleSize
    /\ 10 * pred.correct_predictions >= 3 * pred.total_predictions

\* the updates of the shared dataset that worker w has completed
WorkerDone(w) == SubSeq(harness.dataset.entries, 1, workers[w].nupdate)

\* the object that worker w has when it runs alone up to its position
DrivenAlone(w) ==
    LET fresh == Constructed(heap[workers[w].ref])
    IN  IF workers[w].pc = "reset" THEN fresh ELSE RunTrace(fresh, WorkerDone(w))

\* every object is the object of its own run
IsolatedObjects ==
    /\ \A w \in DOMAIN workers :
           /\ heap[workers[w].ref] = DrivenAlone(w)
           /\ workers[w].pc = "done" =>
                  /\ workers[w].nupdate = DatasetLen(harness.dataset)
                  /\ workers[w].ret = GetAccuracy(DrivenAlone(w)).ret
    /\ \A ref \in DOMAIN heap :
           (\A w \in DOMAIN workers : workers[w].ref # ref) =>
               heap[ref] = Constructed(heap[ref])

\* two TAGE objects driven at once, one worker a whole entry ahead
C15_Witness ==
    /\ Len(workers) = 2
    /\ heap[workers[1].ref].name = "TAGE"
    /\ heap[workers[2].ref].name = "TAGE"
    /\ workers[1].pc = "update" /\ workers[1].i = 2
    /\ workers[2].pc = "update" /\ workers[2].i = 1
    /\ heap[workers[1].ref] # heap[workers[2].ref]

\* C15: whatever the interleaving of the workers' predict and update steps,
\* the object of each worker is the object it has when driven alone over the
\* shared dataset up to its position, the accuracy it returns is that of the
\* run alone, an object no worker drives stays as constructed, and no step
\* writes the shared dataset.
C15_InstancesIsolated == [] IsolatedObjects /\ [][harness' = harness]_vars

\* the writes of total_predictions that worker w has made
TotalStores(w) ==
    workers[w].nupdate
    + (IF workers[w].pc \in {"load_correct", "store_correct", "load_counter",
                              "store_counter", "load_history", "store_history"}
       THEN 1 ELSE 0)

\* the updates issued by all workers: completed or past the write of total
UpdatesIssued == TotalStores(1) + TotalStores(2)

\* the object after the two passes one after the other
SequentialPasses ==
    RunTrace(RunTrace(GShareReset(heap[1]), harness.dataset.entries),
             harness.dataset.entries)

\* C16: the update of a shared GShare object is not synchronised: every write
\* of total_predictions stores the value its worker read plus one, whatever
\* the other worker has written since the read, so that total_predictions
\* never exceeds, and may fall short of, the number of updates issued.
C16_UnsynchronisedUpdate ==
    /\ [] (heap[1].total_predictions <= UpdatesIssued)
    /\ [][\A w \in DOMAIN workers :
              (workers[w].pc = "store_total" /\ workers'[w].pc # "store_total") =>
                  heap'[1].total_predictions = workers[w].tmp + 1]_vars

\* both passes have ended: an update is lost, and the history and the
\* counters are not those of the passes one after the other
C16_Witness ==
    /\ Len(workers) = 2
    /\ workers[1].pc = "done" /\ workers[2].pc = "done"
    /\ workers[1].ret.exc = "none" /\ workers[2].ret.exc = "none"
    /\ heap[1].total_predictions < workers[1].nupdate + workers[2].nupdate
    /\ heap[1].history # SequentialPasses.history
    /\ heap[1].table # SequentialPasses.table

\* y: +1 for taken, -1 for not_taken
Sign(outcome) == IF outcome = "taken" THEN 1 ELSE -1

\* x[k] for the history register: x[0] = 1, x[k] = +1 if bit k - 1 is 1 else -1
PerceptronInput(history, k) ==
    IF k = 0 THEN 1
    ELSE IF (history \div Pow2(k - 1)) % 2 = 1 THEN 1 ELSE -1

\* w[0] x[0] + ... + w[k] x[k]
RECURSIVE Dot(_, _, _)
Dot(w, history, k) ==
    IF k < 0 THEN 0
    ELSE Dot(w, history, k - 1) + w[k] * PerceptronInput(history, k)

\* the output of the perceptron the token selects, on the object self
OutputOf(self, address) ==
    Dot(self.weights[AddressToInt(address).val % self.table_size],
        self.history, self.history_length)

PerceptronUpdated == last.op = "update" /\ Returned /\ last.pre.name = "Perceptron"

\* C21: a Perceptron update, with y = +1 for taken and -1 for not_taken and
\* the output of the state before it, adds y x[k] to every weight k of the
\* indexed vector if y output <= threshold, also when the prediction was
\* correct, and changes no weight if y output > threshold; no other vector
\* changes.
C21_TrainingRule ==
    PerceptronUpdated =>
        LET index == AddressToInt(last.address).val % last.pre.table_size
            y == Sign(last.outcome)
            output == OutputOf(last.pre, last.address)
        IN  /\ \A n \in DOMAIN pred.weights : n # index => pred.weights[n] = last.pre.weights[n]
            /\ y * output * last.pre.threshold[2] <= last.pre.threshold[1] =>
                   \A k \in 0..last.pre.history_length :
                       pred.weights[index][k]
                           = last.pre.weights[index][k]
                             + y * PerceptronInput(last.pre.history, k)
            /\ y * output * last.pre.threshold[2] > last.pre.threshold[1] =>
                   pred.weights = last.pre.weights
            /\ (y = 1 /\ output = 0) =>
                   \A k \in 0..last.pre.history_length :
                       pred.weights[index][k] - last.pre.weights[index][k]
                           = PerceptronInput(last.pre.history, k)

\* a correct prediction of taken below the threshold: the weights are trained
C21_Witness ==
    /\ PerceptronUpdated
    /\ last.outcome = "taken"
    /\ OutputOf(last.pre, last.address) = 1
    /\ pred.correct_predictions = last.pre.correct_predictions + 1
    /\ pred.weights # last.pre.weights
    /\ last.pre.history # 0

\* C22: every counter of a Bimodal table as constructed or as reset is at or
\* above half-range, and the first predict on such an object returns taken.
C22_FreshBimodalWeaklyTaken ==
    /\ (pred.name = "Bimodal" /\ last.op \in {"init", "reset"}) =>
           \A n \in DOMAIN pred.table : pred.table[n] >= 2
    /\ (last.op = "predict" /\ Returned /\ last.pre.name = "Bimodal"
          /\ last.pre = Constructed(last.pre)) =>
           last.ret.val = "taken"

\* the value of the token of the last call
LastValue == AddressToInt(last.address).val

\* min(3, c + 1) on taken, max(0, c - 1) on not_taken
Stepped(c, outcome) ==
    IF outcome = "taken" THEN (IF c < 3 THEN c + 1 ELSE 3)
    ELSE (IF c > 0 THEN c - 1 ELSE 0)

\* C23: Bimodal predict returns taken iff the counter at index value mod T is
\* at least 2; update steps that one counter (min(3, c + 1) on taken,
\* max(0, c - 1) on not_taken) and leaves every other counter as it was.
C23_BimodalRule ==
    (Returned /\ last.pre.name = "Bimodal") =>
        LET index == LastValue % last.pre.table_size
        IN  /\ last.op = "predict" =>
                   (last.ret.val = "taken" <=> last.pre.table[index] >= 2)
            /\ last.op = "update" =>
                   /\ DOMAIN pred.table = DOMAIN last.pre.table
                   /\ \A n \in DOMAIN pred.table :
                          pred.table[n] = IF n = index
                                          THEN Stepped(last.pre.table[n], last.outcome)
                                          ELSE last.pre.table[n]

\* an update of counter 1 that leaves counter 0 at the value 3 it had
C23_Witness ==
    /\ last.op = "update"
    /\ Returned
    /\ last.pre.name = "Bimodal"
    /\ LastValue % last.pre.table_size = 1
    /\ last.outcome = "not_taken"
    /\ last.pre.table[0] = 3
    /\ pred.table[0] = 3
    /\ pred.table[1] = 0

\* (value XOR history) mod T for the token of the last call
GShareIndexAt(history) == BitXor(LastValue, history) % last.pre.table_size

\* C24: GShare predict reads, and update scores and steps, the one counter at
\* index (value XOR history) mod T for the history before the call; every
\* other counter is unchanged; the history after update is the history before
\* shifted left by the outcome bit and masked to history_bits.
C24_GShareRule ==
    (Returned /\ last.pre.name = "GShare") =>
        LET index == GShareIndexAt(last.pre.history)
            prediction == IF last.pre.table[index] >= 2 THEN "taken" ELSE "not_taken"
        IN  /\ last.op = "predict" => (last.ret.val = prediction /\ pred = last.pre)
            /\ last.op = "update" =>
                   /\ pred.correct_predictions
                          = last.pre.correct_predictions
                            + (IF prediction = last.outcome THEN 1 ELSE 0)
                   /\ DOMAIN pred.table = DOMAIN last.pre.table
                   /\ \A n \in DOMAIN pred.table :
                          pred.table[n] = IF n = index
                                          THEN Stepped(last.pre.table[n], last.outcome)
                                          ELSE last.pre.table[n]
                   /\ pred.history
                          = (2 * last.pre.history + (IF last.outcome = "taken" THEN 1 ELSE 0))
                            % Pow2(last.pre.history_bits)

\* an update whose index under the history before differs from the index
\* under the history after and from the index without history
C24_Witness ==
    /\ last.op = "update"
    /\ Returned
    /\ last.pre.name = "GShare"
    /\ GShareIndexAt(last.pre.history) # GShareIndexAt(pred.history)
    /\ GShareIndexAt(last.pre.history) # GShareIndexAt(0)
    /\ pred.table[GShareIndexAt(last.pre.history)]
           # last.pre.table[GShareIndexAt(last.pre.history)]
    /\ pred.table[GShareIndexAt(pred.history)] # 1

\* C25: Perceptron predict returns taken iff w[0] + the sum over k in 1..H of
\* w[k] (+1 if history bit k - 1 is 1 else -1) is at least 0, for the weight
\* vector at index value mod P; an output of exactly 0 predicts taken.
C25_PerceptronPredictRule ==
    (last.op = "predict" /\ Returned /\ last.pre.name = "Perceptron") =>
        /\ last.ret.val = "taken" <=> OutputOf(last.pre, last.address) >= 0
        /\ OutputOf(last.pre, last.address) = 0 => last.ret.val = "taken"
        /\ last.pre = Constructed(last.pre) => last.ret.val = "taken"

\* an output of 0 from weights that are not 0
C25_Witness ==
    /\ last.op = "predict"
    /\ Returned
    /\ last.pre.name = "Perceptron"
    /\ OutputOf(last.pre, last.address) = 0
    /\ last.pre.weights[LastValue % last.pre.table_size][0] # 0
    /\ last.ret.val = "taken"

TageUpdated == last.op = "update" /\ Returned /\ last.pre.name = "TAGE"

\* the provider of the last call: the highest matching tagged table, or -1
LastProvider ==
    LET matches == TageMatches(last.pre, last.address)
    IN  IF matches = {} THEN -1
        ELSE CHOOSE i \in matches : \A j \in matches : j <= i

\* the slot of tagged table i that the token of the last call indexes
LastSlot(i) == TageGetIndex(last.pre, last.address, i)

\* the prediction that the last update scored
LastTagePrediction ==
    IF LastProvider >= 0
    THEN TageEntryPrediction(last.pre, last.address, LastProvider)
    ELSE TageBasePrediction(last.pre, last.address)

\* the tagged slots <<table, slot>> that the last update changed in a field
\* other than the counter of the provider entry
Overwritten ==
    { s \in { <<i, n>> : i \in DOMAIN pred.tagged_tables, n \in DOMAIN pred.base_table } :
        /\ pred.tagged_tables[s[1]][s[2]] # last.pre.tagged_tables[s[1]][s[2]]
        /\ ~ (s[1] = LastProvider /\ s[2] = LastSlot(s[1])) }

\* C26: a TAGE update steps the counter of the provider entry only: with a
\* tagged provider, that entry's counter is stepped, its tag and useful field
\* and the whole base table are unchanged; without one, only the base counter
\* at value mod base_table_size is stepped; every other tagged entry is
\* unchanged unless it is a slot that the allocation of a misprediction may
\* overwrite (the indexed slot of a table above the provider).
C26_OnlyProviderCounter ==
    TageUpdated =>
        /\ LastProvider >= 0 =>
               LET before == last.pre.tagged_tables[LastProvider][LastSlot(LastProvider)]
                   after == pred.tagged_tables[LastProvider][LastSlot(LastProvider)]
               IN  /\ after[0] = Stepped(before[0], last.outcome)
                   /\ after[1] = before[1]
                   /\ after[2] = before[2]
                   /\ pred.base_table = last.pre.base_table
        /\ LastProvider < 0 =>
               \A n \in DOMAIN pred.base_table :
                   pred.base_table[n]
                       = IF n = LastValue % last.pre.base_table_size
                         THEN Stepped(last.pre.base_table[n], last.outcome)
                         ELSE last.pre.base_table[n]
        /\ \A s \in Overwritten :
               /\ LastTagePrediction # last.outcome
               /\ s[1] > LastProvider
               /\ s[2] = LastSlot(s[1])

\* a provider in table 0 below a table that does not match: its counter is
\* stepped and the base table, already trained, stays as it was
C26_Witness ==
    /\ TageUpdated
    /\ last.pre.num_tables >= 2
    /\ LastProvider = 0
    /\ pred.tagged_tables[0][LastSlot(0)][0] # last.pre.tagged_tables[0][LastSlot(0)][0]
    /\ \E n \in DOMAIN pred.base_table : pred.base_table[n] # 1
    /\ pred.base_table = last.pre.base_table

\* C27: a TAGE update whose scored prediction equals the outcome changes no
\* tag and no useful field of any tagged entry; one whose prediction differs
\* overwrites at most one tagged slot.
C27_AllocationOnMissAtMostOnce ==
    TageUpdated =>
        /\ LastTagePrediction = last.outcome =>
               \A i \in DOMAIN pred.tagged_tables : \A n \in DOMAIN pred.base_table :
                   /\ pred.tagged_tables[i][n][1] = last.pre.tagged_tables[i][n][1]
                   /\ pred.tagged_tables[i][n][2] = last.pre.tagged_tables[i][n][2]
        /\ LastTagePrediction = last.outcome => Overwritten = {}
        /\ Cardinality(Overwritten) <= 1

\* a misprediction of the base table with two tables to allocate in: one
\* slot is overwritten
C27_Witness ==
    /\ TageUpdated
    /\ last.pre.num_tables >= 2
    /\ LastProvider = -1
    /\ LastTagePrediction # last.outcome
    /\ Cardinality(Overwritten) = 1
    /\ \A i \in DOMAIN last.pre.tagged_tables :
           last.pre.tagged_tables[i][LastSlot(i)][2] = 0

\* the tables above the provider whose indexed slot has useful = 0
AllocCandidates ==
    { i \in DOMAIN last.pre.tagged_tables :
        i > LastProvider /\ last.pre.tagged_tables[i][LastSlot(i)][2] = 0 }

\* C28: on a misprediction the slot overwritten is the indexed slot of the
\* highest table above the provider (of all tables if the base provided)
\* whose slot has useful = 0; it becomes [2 if taken else 1, the tag computed
\* for that table, 0]; no slot of the provider's table or of a table below it
\* is overwritten, and nothing is overwritten if no such table exists.
C28_AllocationTarget ==
    (TageUpdated /\ LastTagePrediction # last.outcome) =>
        /\ \A s \in Overwritten : s[1] > LastProvider
        /\ AllocCandidates = {} => Overwritten = {}
        /\ AllocCandidates # {} =>
               LET t == CHOOSE i \in AllocCandidates : \A j \in AllocCandidates : j <= i
               IN  /\ Overwritten \subseteq { <<t, LastSlot(t)>> }
                   /\ pred.tagged_tables[t][LastSlot(t)]
                          = Entry(IF last.outcome = "taken" THEN 2 ELSE 1,
                                  TageGetTag(last.pre, last.address,
                                             last.pre.history_lengths[t]),
                                  0)

\* a misprediction by a provider in table 0: the slot of the table above is
\* overwritten with the new tag, and table 0 keeps its tags
C28_Witness ==
    /\ TageUpdated
    /\ LastTagePrediction # last.outcome
    /\ LastProvider = 0
    /\ last.pre.num_tables >= 2
    /\ Cardinality(Overwritten) = 1
    /\ \A s \in Overwritten : s[1] = last.pre.num_tables - 1
    /\ \A n \in DOMAIN pred.base_table :
           pred.tagged_tables[0][n][1] = last.pre.tagged_tables[0][n][1]

\* the global history before the last call, advanced by its outcome
AdvancedHistory ==
    IF last.pre.max_history > 0
    THEN (2 * last.pre.global_history + (IF last.outcome = "taken" THEN 1 ELSE 0))
         % Pow2(last.pre.max_history)
    ELSE last.pre.global_history

\* C29: a TAGE update scores the prediction of the provider found with the
\* global history before the call, steps the provider counter at the slot of
\* that history, allocates at the slot and with the tag of that history, and
\* ends with the history shifted left by the outcome bit and masked to
\* max_history bits.
C29_HistoryAdvancedLast ==
    TageUpdated =>
        /\ pred.correct_predictions
               = last.pre.correct_predictions
                 + (IF LastTagePrediction = last.outcome THEN 1 ELSE 0)
        /\ LastProvider >= 0 =>
               pred.tagged_tables[LastProvider][LastSlot(LastProvider)][0]
                   = Stepped(last.pre.tagged_tables[LastProvider][LastSlot(LastProvider)][0],
                             last.outcome)
        /\ \A s \in Overwritten :
               /\ s[2] = LastSlot(s[1])
               /\ pred.tagged_tables[s[1]][s[2]][1]
                      = TageGetTag(last.pre, last.address, last.pre.history_lengths[s[1]])
        /\ pred.global_history = AdvancedHistory

\* an allocation whose slot and tag under the history after the update would
\* be others
C29_Witness ==
    /\ TageUpdated
    /\ last.pre.global_history # 0
    /\ \E s \in Overwritten :
           /\ TageGetIndex(pred, last.address, s[1]) # s[2]
           /\ TageGetTag(pred, last.address, pred.history_lengths[s[1]])
                  # pred.tagged_tables[s[1]][s[2]][1]
    /\ pred.global_history # last.pre.global_history

\* the addresses 0 .. MaxAddress, written as the generators write them
MaxAddress == 2047

AddressRange == { FormatAddress(n) : n \in 0..MaxAddress }

\* the pairs <<slot, tag>> of tagged table i over the addresses, under the
\* history of the state (address XOR history runs over the same values under
\* every history)
Reductions(i) ==
    { <<TageGetIndex(pred, address, i), TageGetTag(pred, address, pred.history_lengths[i])>> :
        address \in AddressRange }

\* C30: in every tagged table there are two address and history combinations
\* with the same slot and different tags, and two with the same tag and
\* different slots.
C30_IndexAndTagIndependent ==
    (pred.name = "TAGE" /\ last.op = "update" /\ Returned) =>
        \A i \in DOMAIN pred.tagged_tables :
            /\ \E p, q \in Reductions(i) : p[1] = q[1] /\ p[2] # q[2]
            /\ \E p, q \in Reductions(i) : p[2] = q[2] /\ p[1] # q[1]

\* the tokens that are numerals
Numerals == { address \in Tokens : AddressToInt(address).exc = "none" }

\* the object self with the bits of the global history above the lowest n cleared
LowHistory(self, n) == [self EXCEPT !.global_history = @ % Pow2(n)]

\* C31: tagged table i of a TAGE object has history length 2^(i+1); its index
\* and tag are those computed from the lowest 2^(i+1) bits of the global
\* history alone; the global history keeps 2^N bits, the length of the
\* longest table.
C31_TageGeometry ==
    pred.name = "TAGE" =>
        /\ DOMAIN pred.history_lengths = 0..(pred.num_tables - 1)
        /\ \A i \in DOMAIN pred.history_lengths :
               /\ pred.history_lengths[i] = Pow2(i + 1)
               /\ \A address \in Numerals :
                      /\ TageGetIndex(pred, address, i)
                             = TageGetIndex(LowHistory(pred, Pow2(i + 1)), address, i)
                      /\ TageGetTag(pred, address, pred.history_lengths[i])
                             = TageGetTag(LowHistory(pred, Pow2(i + 1)), address,
                                          pred.history_lengths[i])
        /\ pred.max_history = IF pred.num_tables > 0 THEN Pow2(pred.num_tables) ELSE 0
        /\ pred.global_history >= 0
        /\ pred.global_history < Pow2(pred.max_history)

\* the highest bit of the register is set: above the history of table 0
C31_Witness ==
    /\ pred.name = "TAGE"
    /\ pred.num_tables >= 2
    /\ last.op = "update"
    /\ pred.global_history >= Pow2(pred.max_history - 1)
    /\ pred.global_history % Pow2(pred.history_lengths[0]) # pred.global_history

\* C32: the useful field of every tagged entry of a TAGE object is 0 in every
\* state, so on an update every table above the provider is free to allocate in.
C32_UsefulNeverSet ==
    pred.name = "TAGE" =>
        /\ \A i \in DOMAIN pred.tagged_tables : \A n \in DOMAIN pred.tagged_tables[i] :
               pred.tagged_tables[i][n][2] = 0
        /\ TageUpdated =>
               AllocCandidates = { i \in DOMAIN last.pre.tagged_tables : i > LastProvider }

\* an allocation that overwrites a slot allocated before
C32_Witness ==
    /\ TageUpdated
    /\ \E s \in Overwritten :
           /\ last.pre.tagged_tables[s[1]][s[2]][1] # 0
           /\ pred.tagged_tables[s[1]][s[2]][1] # last.pre.tagged_tables[s[1]][s[2]][1]
           /\ pred.tagged_tables[s[1]][s[2]][2] = 0

\* the number of the longest-history table of the object before the last call
TopTable == last.pre.num_tables - 1

\* C33: a misprediction whose provider is the base table or a tagged table
\* below the longest overwrites a slot of the longest table and no other; one
\* whose provider is the longest table overwrites nothing; the tag of every
\* slot of the tables below the longest is 0 in every state.
C33_AllocationInLongestTable ==
    pred.name = "TAGE" =>
        /\ \A i \in DOMAIN pred.tagged_tables : \A n \in DOMAIN pred.tagged_tables[i] :
               i < pred.num_tables - 1 => pred.tagged_tables[i][n][1] = 0
        /\ (TageUpdated /\ LastTagePrediction # last.outcome /\ TopTable >= 0) =>
               IF LastProvider < TopTable
               THEN Overwritten = { <<TopTable, LastSlot(TopTable)>> }
               ELSE Overwritten = {}

\* a misprediction by a never-allocated slot of table 0: the allocation goes
\* to the longest table, which holds allocated tags, and table 0 holds none
C33_Witness ==
    /\ TageUpdated
    /\ LastTagePrediction # last.outcome
    /\ TopTable >= 1
    /\ LastProvider = 0
    /\ Overwritten = { <<TopTable, LastSlot(TopTable)>> }
    /\ \E n \in DOMAIN pred.tagged_tables[TopTable] :
           n # LastSlot(TopTable) /\ pred.tagged_tables[TopTable][n][1] # 0
    /\ \A n \in DOMAIN pred.tagged_tables[0] : pred.tagged_tables[0][n][1] = 0

\* C34: on a TAGE object as constructed or as reset, predict and update find
\* no provider among the tagged tables for any address: the prediction is the
\* base table's, and update steps the base counter at value mod
\* base_table_size and the counter of no tagged provider entry.
C34_FreshTageUsesBase ==
    (/\ last.op \in {"predict", "update"}
     /\ Returned
     /\ last.pre.name = "TAGE"
     /\ last.pre = Constructed(last.pre)) =>
        /\ LastProvider = -1
        /\ last.op = "update" =>
               LET n == TageGetBaseIndex(last.pre, last.address)
               IN  pred.base_table[n] = Stepped(last.pre.base_table[n], last.outcome)

\* the Bimodal object stepped side by side with the TAGE object: constructed
\* with table_size = base_table_size and given the same updates
BimodalTwin == RunTrace(BimodalPredictor(pred.base_table_size), trace)

\* C35: a TAGE object with num_tables = 0 and a Bimodal object with
\* table_size = base_table_size, given the same calls, hold the same counter
\* table and the same correct and total after every call, every predict
\* returns the same on both, and the global history of the TAGE object is 0.
C35_TageWithoutTablesIsBimodal ==
    (pred.name = "TAGE" /\ pred.num_tables = 0) =>
        /\ pred.base_table = BimodalTwin.table
        /\ pred.correct_predictions = BimodalTwin.correct_predictions
        /\ pred.total_predictions = BimodalTwin.total_predictions
        /\ pred.global_history = 0
        /\ last.op = "predict" => last.ret = BimodalPredict(BimodalTwin, last.address).ret
        /\ last.op = "update" =>
               last.ret = BimodalUpdate(RunTrace(BimodalPredictor(pred.base_table_size),
                                                 IF Returned THEN SubSeq(trace, 1, Len(trace) - 1)
                                                 ELSE trace),
                                        last.address, last.outcome).ret

\* both objects have learnt taken at one index and still predict not_taken at
\* the other
C35_Witness ==
    /\ pred.name = "TAGE"
    /\ pred.num_tables = 0
    /\ last.op = "predict"
    /\ last.ret.val = "taken"
    /\ Len(trace) >= 2
    /\ \E n \in DOMAIN pred.base_table : pred.base_table[n] < 2
    /\ pred.correct_predictions >= 1
    /\ pred.correct_predictions < pred.total_predictions

\* the Bimodal table index of entry i of the trace
TraceIndex(i) == BimodalGetIndex(pred, trace[i].address).val

\* entries j < k of the trace are two updates with one outcome at one Bimodal
\* index, with no other update at that index between them or after them
TwoInARow(j, k) ==
    /\ j < k
    /\ TraceIndex(j) = TraceIndex(k)
    /\ trace[j].outcome = trace[k].outcome
    /\ \A i \in (j + 1)..Len(trace) : i # k => TraceIndex(i) # TraceIndex(k)

\* C36: on a Bimodal object, after two updates with one outcome at one table
\* index and no other update at that index since the first of them, predict on
\* every address of that index returns that outcome; and an update with the
\* opposite outcome on a counter at 0 or 3 leaves the prediction at its index
\* as it was.
C36_TwoBitHysteresis ==
    pred.name = "Bimodal" =>
        /\ \A j, k \in 1..Len(trace) :
               TwoInARow(j, k) =>
                   \A address \in Numerals :
                       BimodalGetIndex(pred, address).val = TraceIndex(k) =>
                           BimodalPredict(pred, address).ret.val = trace[k].outcome
        /\ (/\ last.op = "update"
            /\ Returned
            /\ \/ last.pre.table[BimodalGetIndex(pred, last.address).val] = 0
                    /\ last.outcome = "taken"
               \/ last.pre.table[BimodalGetIndex(pred, last.address).val] = 3
                    /\ last.outcome = "not_taken") =>
               BimodalPredict(pred, last.address).ret = BimodalPredict(last.pre, last.address).ret

\* two taken updates saturate a counter and turn the prediction, and one
\* not_taken update after them leaves the prediction taken
C36_Witness ==
    /\ pred.name = "Bimodal"
    /\ last.op = "update"
    /\ Returned
    /\ Len(trace) = 3
    /\ TraceIndex(1) = TraceIndex(2) /\ TraceIndex(2) = TraceIndex(3)
    /\ trace[1].outcome = "taken" /\ trace[2].outcome = "taken"
    /\ last.pre.table[BimodalGetIndex(pred, last.address).val] = 3
    /\ last.outcome = "not_taken"
    /\ BimodalPredict(last.pre, last.address).ret.val = "taken"
    /\ pred.table[BimodalGetIndex(pred, last.address).val] = 2

\* C37: a Perceptron update changes no weight vector but the one at index
\* value mod table_size, changes each weight of that vector by -1, 0 or +1,
\* leaves every vector with history_length + 1 weights, and shifts the outcome
\* into the history register whether or not the weights were trained.
C37_PerceptronUpdateFrame ==
    PerceptronUpdated =>
        LET index == LastValue % last.pre.table_size
        IN  /\ DOMAIN pred.weights = DOMAIN last.pre.weights
            /\ \A n \in DOMAIN pred.weights :
                   /\ DOMAIN pred.weights[n] = 0..pred.history_length
                   /\ n # index => pred.weights[n] = last.pre.weights[n]
            /\ \A k \in 0..pred.history_length :
                   pred.weights[index][k] - last.pre.weights[index][k] \in {-1, 0, 1}
            /\ pred.history_length = last.pre.history_length
            /\ pred.history = (2 * last.pre.history + (IF last.outcome = "taken" THEN 1 ELSE 0))
                                  % Pow2(pred.history_length)

\* an update whose output is beyond the threshold on the side of the outcome:
\* no weight is trained and the history register still takes the outcome
C37_Witness ==
    /\ PerceptronUpdated
    /\ Sign(last.outcome) * OutputOf(last.pre, last.address) >= 2
    /\ pred.weights = last.pre.weights
    /\ pred.history # last.pre.history

\* the alternating dataset as a list
AlternatingEntries == [i \in 1..AlternatingSize |-> DatasetAt(AlternatingDataset, i)]

\* C38: a GShare object of history width W >= 1 and a table of at least 2^W
\* counters, run from construction on the alternating dataset, predicts every
\* entry after the first W + 2 correctly; from then on two more entries bring
\* its table and history back to what they are, so this goes on however long
\* the alternation lasts; and it ends the 100 entries with more correct
\* predictions, and a higher accuracy, than a Bimodal object run on them.
C38_GShareLearnsAlternation ==
    (harness.dataset = AlternatingDataset /\ pred.name = "GShare") =>
        /\ (harness.pc = "update" /\ harness.i > pred.history_bits + 2) =>
               last.ret.val = DatasetAt(harness.dataset, harness.i).outcome
        /\ (last.op = "update" /\ harness.nupdate > pred.history_bits + 2) =>
               pred.correct_predictions = last.pre.correct_predictions + 1
        /\ (harness.pc = "predict" /\ harness.nupdate >= pred.history_bits + 4) =>
               LET next == DatasetAt(harness.dataset, harness.i)
                   after == DatasetAt(harness.dataset, harness.i + 1)
                   two == RunTrace(pred, <<next, after>>)
               IN  /\ two.table = pred.table
                   /\ two.history = pred.history
                   /\ two.correct_predictions = pred.correct_predictions + 2
        /\ HarnessDone =>
               LET bimodal == RunTrace(BimodalPredictor(pred.table_size), AlternatingEntries)
               IN  /\ pred.total_predictions = AlternatingSize
                   /\ bimodal.total_predictions = AlternatingSize
                   /\ pred.correct_predictions > bimodal.correct_predictions
                   /\ pred.correct_predictions >= AlternatingSize - (pred.history_bits + 2)
                   /\ harness.ret.val[1] * GetAccuracy(bimodal).ret.val[2]
                          > GetAccuracy(bimodal).ret.val[1] * harness.ret.val[2]

\* the default GShare object at the end of the alternating dataset, with the
\* 6 misses of its warm-up
C38_Witness ==
    /\ harness.dataset = AlternatingDataset
    /\ HarnessDone
    /\ pred.name = "GShare"
    /\ pred.history_bits = DefaultHistoryBits
    /\ harness.nupdate = AlternatingSize
    /\ pred.correct_predictions = 94

\* C39: an update of Bimodal, GShare, Perceptron or TAGE that ends in an
\* exception of the address hashing leaves the object as it was before the
\* call: correct and total, every counter, entry and weight, and the history.
C39_FailedUpdateChangesNothing ==
    (/\ last.op = "update"
     /\ last.ret.exc # "none"
     /\ last.pre.name \in {"Bimodal", "GShare", "Perceptron", "TAGE"}) =>
        /\ AddressToInt(last.address).exc = last.ret.exc
        /\ pred = last.pre

\* an update with an unparseable token on an object that earlier updates have
\* trained
C39_Witness ==
    /\ last.op = "update"
    /\ last.ret.exc = "ValueError"
    /\ last.pre.name \in {"Bimodal", "GShare", "Perceptron", "TAGE"}
    /\ Len(trace) >= 2
    /\ pred.correct_predictions >= 1
    /\ pred # Constructed(pred)
    /\ pred = last.pre

\* the value that calculate_accuracies stores for a predictor function
StoredFor(function) ==
    LET r == CallFunction(function, last.pre)
    IN  IF r.ret.exc = "none" THEN r.ret.val ELSE <<0, 1>>

\* C40: calculate_accuracies builds one entry for each predictor name given,
\* in the order given: the value the function returns on the dataset, or 0.0
\* when the function raises, as each function-style predictor does on the
\* empty dataset; a raise does not end the loop; the dictionary returned holds
\* exactly the names given; and the dataset stays as it was handed over.
C40_OneEntryPerPredictor ==
    harness.pc \in {"loop", "done"} =>
        /\ harness.dataset = last.pre
        /\ Len(harness.accuracies) = harness.i - 1
        /\ \A k \in 1..Len(harness.accuracies) :
               /\ harness.accuracies[k].name = harness.predictors[k].name
               /\ harness.accuracies[k].value = StoredFor(harness.predictors[k].value)
               /\ harness.dataset = <<>> => harness.accuracies[k].value = <<0, 1>>
        /\ (last.op \in PredictorFunctions /\ last.ret.exc # "none") =>
               /\ harness.ret.exc = "none"
               /\ harness.accuracies[harness.i - 1].value = <<0, 1>>
        /\ harness.pc = "done" =>
               /\ harness.ret.exc = "none"
               /\ Len(harness.ret.val) = Len(harness.predictors)
               /\ { harness.ret.val[k].name : k \in 1..Len(harness.ret.val) }
                      = { harness.predictors[k].name : k \in 1..Len(harness.predictors) }

\* the call returned on the empty dataset with two predictors: both raised,
\* both have the entry 0.0
C40_Witness ==
    /\ harness.pc = "done"
    /\ harness.dataset = <<>>
    /\ Len(harness.predictors) = 2
    /\ harness.predictors[1].value = "always_taken_predictor"
    /\ harness.predictors[2].value = "never_taken_predictor"
    /\ last.ret.exc = "ZeroDivisionError"
    /\ harness.ret.val = << DictItem(harness.predictors[1].name, <<0, 1>>),
                            DictItem(harness.predictors[2].name, <<0, 1>>) >>

====
